---- MODULE Spec2Model ----
(***************************************************************************)
(* A model of the jvmb class-file decoder (src/src/*.rs).                  *)
(*                                                                         *)
(* The decoder is a chain of nom parsers over a byte slice.  A byte is a   *)
(* number in 0..255, a slice is a sequence of bytes together with the      *)
(* number of bytes already consumed (the cursor), and every parser is an   *)
(* operator from (slice, cursor) to a result record                        *)
(*     [st, pos, val, why]                                                 *)
(* st = "ok"    : the parser returned Ok((rest, val)); pos is the cursor   *)
(*                of rest;                                                 *)
(* st = "err"   : the parser returned Err(nom::Err::Error(..)), the value  *)
(*                that the ? operator hands back to the caller;            *)
(* st = "panic" : the thread panicked (unwrap on None/Err, unimplemented!, *)
(*                an overflow check, a capacity overflow).                 *)
(* ClassFile::parse_class_file is the state machine: one action per        *)
(* section of the file and one per iteration of its loops.                 *)
(***************************************************************************)
EXTENDS Integers, Sequences, FiniteSets, TLC

VARIABLES
    buf,            \* the input buffer handed to parse_class_file
    build,          \* the build the binary comes from, see Builds
    pc,             \* position in parse_class_file
    pos,            \* cursor: bytes of buf consumed so far
    minor_version, major_version,
    constant_pool_count,
    i,              \* the logical slot counter of ConstantPool::parse
    constant_pool,  \* the stored entries, in file order
    access_flags, this_class, super_class,
    interfaces,
    fields_count, fields,
    methods_count, methods,
    attribute_infos,\* the raw envelopes of the class
    attributes,     \* the promoted attributes of the class
    lookup,         \* the last constant-pool dereference of the dispatcher
    consumed,       \* per promoted attribute, the bytes its sub-grammar read
    ret,            \* what parse_class_file returned: "none", "Ok", "Err"
    why,            \* the error kind or panic message, "" when none
    exit            \* the process: "running", "success", "abort"

vars == <<buf, build, pc, pos, minor_version, major_version,
          constant_pool_count, i, constant_pool, access_flags, this_class,
          super_class, interfaces, fields_count, fields, methods_count,
          methods, attribute_infos, attributes, lookup, consumed, ret, why,
          exit>>

-----------------------------------------------------------------------------
(* The builds.  Integer overflow panics where overflow checks are compiled *)
(* in (the debug profile) and wraps where they are not (the release        *)
(* profile).  nom's count(f, n) allocates room for all n results up front  *)
(* in the older releases of the crate and for a capped number in the newer *)
(* ones; the two differ only for an n that no allocation can hold.         *)

Builds == {"debug", "release_prealloc", "release_capped"}

checked == build = "debug"

-----------------------------------------------------------------------------
(* Results *)

Ok(p, v) == [st |-> "ok", pos |-> p, val |-> v, why |-> ""]

Err(p, w) == [st |-> "err", pos |-> p, val |-> <<>>, why |-> w]

Panic(p, w) == [st |-> "panic", pos |-> p, val |-> <<>>, why |-> w]

-----------------------------------------------------------------------------
(* Primitive cursor: nom::number::complete and nom::bytes::complete *)

\* A u32 that does not fit TLC's integers stands for "more than any
\* buffer holds": it is only ever compared with a remaining length.
Huge == 2147483646 + 1

Remaining(b, p) == Len(b) - p

u8(b, p) ==
    IF Remaining(b, p) < 1 THEN Err(p, "Eof") ELSE Ok(p + 1, b[p + 1])

be_u16(b, p) ==
    IF Remaining(b, p) < 2 THEN Err(p, "Eof")
    ELSE Ok(p + 2, b[p + 1] * 256 + b[p + 2])

be_u32(b, p) ==
    IF Remaining(b, p) < 4 THEN Err(p, "Eof")
    ELSE IF b[p + 1] >= 128 THEN Ok(p + 4, Huge)
    ELSE Ok(p + 4, ((b[p + 1] * 256 + b[p + 2]) * 256 + b[p + 3]) * 256 + b[p + 4])

\* a take that hands out what is left when fewer than n bytes remain
take_what_is_left(n, b, p) ==
    IF Remaining(b, p) < n THEN Ok(Len(b), SubSeq(b, p + 1, Len(b)))
    ELSE Ok(p + n, SubSeq(b, p + 1, p + n))

take(n, b, p) ==
    IF Remaining(b, p) < n THEN Err(p, "Eof")
    ELSE Ok(p + n, SubSeq(b, p + 1, p + n))

tag(t, b, p) ==
    IF Remaining(b, p) >= Len(t) /\ SubSeq(b, p + 1, p + Len(t)) = t
    THEN Ok(p + Len(t), t)
    ELSE Err(p, "Tag")

\* The ? operator: a result that is not Ok leaves the function as it is
\* (an Err returns, a panic unwinds), an Ok result goes on to the rest K.
Bind(r, K(_)) == IF r.st # "ok" THEN r ELSE K(r)

\* length_data(be_u16): a u16 length, then that many bytes
length_data_u16(b, p) ==
    Bind(be_u16(b, p), LAMBDA n: take(n.val, b, n.pos))

\* k consecutive `let (buf, x) = be_u16(buf)?;` lines
RECURSIVE u16s(_, _, _)
u16s(k, b, p) ==
    IF k = 0 THEN Ok(p, <<>>)
    ELSE Bind(be_u16(b, p), LAMBDA r:
         Bind(u16s(k - 1, b, r.pos), LAMBDA rest:
         Ok(rest.pos, <<r.val>> \o rest.val)))

-----------------------------------------------------------------------------
(* String::from_utf8: the standard UTF-8 well-formedness table *)

Cont(x) == x >= 128 /\ x <= 191

RECURSIVE from_utf8_ok(_, _)
from_utf8_ok(s, k) ==
    IF k > Len(s) THEN TRUE
    ELSE LET x == s[k]
             has(n) == k + n <= Len(s)
         IN
         IF x < 128 THEN from_utf8_ok(s, k + 1)
         ELSE IF x >= 194 /\ x <= 223
              THEN has(1) /\ Cont(s[k + 1]) /\ from_utf8_ok(s, k + 2)
         ELSE IF x >= 224 /\ x <= 239
              THEN /\ has(2)
                   /\ Cont(s[k + 1]) /\ Cont(s[k + 2])
                   /\ (x = 224 => s[k + 1] >= 160)
                   /\ (x = 237 => s[k + 1] <= 159)
                   /\ from_utf8_ok(s, k + 3)
         ELSE IF x >= 240 /\ x <= 244
              THEN /\ has(3)
                   /\ Cont(s[k + 1]) /\ Cont(s[k + 2]) /\ Cont(s[k + 3])
                   /\ (x = 240 => s[k + 1] >= 144)
                   /\ (x = 244 => s[k + 1] <= 143)
                   /\ from_utf8_ok(s, k + 4)
         ELSE FALSE

-----------------------------------------------------------------------------
(* constantpool.rs *)

CONSTANT_CLASS == 7
CONSTANT_FIELD_REF == 9
CONSTANT_METHOD_REF == 10
CONSTANT_INTERFACE_METHOD_REF == 11
CONSTANT_STRING == 8
CONSTANT_INTEGER == 3
CONSTANT_FLOAT == 4
CONSTANT_LONG == 5
CONSTANT_DOUBLE == 6
CONSTANT_NAME_AND_TYPE == 12
CONSTANT_UTF8 == 1
CONSTANT_METHOD_HANDLE == 15
CONSTANT_METHOD_TYPE == 16
CONSTANT_DYNAMIC == 17
CONSTANT_INVOKE_DYNAMIC == 18
CONSTANT_MODULE == 19
CONSTANT_PACKAGE == 20

\* A stored entry: its variant and its payload.  Index payloads are the
\* decoded u16 values; the numeric payloads of Integer, Float, Long and
\* Double are kept as their big-endian bytes.
Entry(k, d) == [kind |-> k, data |-> d]

\* the variants whose payload is one u16, and those with two
OneIndexKind(t) ==
    CASE t = CONSTANT_CLASS -> "Class"
      [] t = CONSTANT_STRING -> "String"
      [] t = CONSTANT_METHOD_TYPE -> "MethodType"
      [] t = CONSTANT_MODULE -> "Module"
      [] t = CONSTANT_PACKAGE -> "Package"
      [] OTHER -> ""

TwoIndexKind(t) ==
    CASE t = CONSTANT_FIELD_REF -> "FieldRef"
      [] t = CONSTANT_METHOD_REF -> "MethodRef"
      [] t = CONSTANT_INTERFACE_METHOD_REF -> "InterfaceMethodRef"
      [] t = CONSTANT_NAME_AND_TYPE -> "NameAndType"
      [] t = CONSTANT_DYNAMIC -> "Dynamic"
      [] t = CONSTANT_INVOKE_DYNAMIC -> "InvokeDynamic"
      [] OTHER -> ""

\* be_i32, be_f32 (4 bytes) and be_i64, be_f64 (8 bytes)
NumericKind(t) ==
    CASE t = CONSTANT_INTEGER -> "Integer"
      [] t = CONSTANT_FLOAT -> "Float"
      [] t = CONSTANT_LONG -> "Long"
      [] t = CONSTANT_DOUBLE -> "Double"
      [] OTHER -> ""

NumericWidth(t) == IF t \in {CONSTANT_LONG, CONSTANT_DOUBLE} THEN 8 ELSE 4

parse_constant(b, p) ==
    Bind(u8(b, p), LAMBDA t:
    IF OneIndexKind(t.val) # ""
    THEN Bind(u16s(1, b, t.pos), LAMBDA r:
         Ok(r.pos, Entry(OneIndexKind(t.val), r.val)))
    ELSE IF TwoIndexKind(t.val) # ""
    THEN Bind(u16s(2, b, t.pos), LAMBDA r:
         Ok(r.pos, Entry(TwoIndexKind(t.val), r.val)))
    ELSE IF NumericKind(t.val) # ""
    THEN Bind(take(NumericWidth(t.val), b, t.pos), LAMBDA r:
         Ok(r.pos, Entry(NumericKind(t.val), r.val)))
    ELSE IF t.val = CONSTANT_UTF8
    THEN Bind(length_data_u16(b, t.pos), LAMBDA r:
         IF from_utf8_ok(r.val, 1)
         THEN Ok(r.pos, Entry("UTF8", r.val))
         ELSE Panic(r.pos, "from_utf8 unwrap"))
    ELSE IF t.val = CONSTANT_METHOD_HANDLE
    THEN Bind(u8(b, t.pos), LAMBDA k:
         Bind(be_u16(b, k.pos), LAMBDA r:
         Ok(r.pos, Entry("MethodHandle", <<k.val, r.val>>))))
    ELSE Panic(t.pos, "unimplemented constant tag"))

\* a loop that leaves its counter alone
SlotAdvance_none(constant) == 0

\* the slots one entry advances the counter i of ConstantPool::parse by
SlotAdvance(constant) ==
    IF constant.kind = "Long" THEN 2
    ELSE IF constant.kind = "Float" THEN 2
    ELSE 1

-----------------------------------------------------------------------------
(* attribute.rs: the sub-grammars *)

\* A decoded variant: its name and its payload in declaration order
Variant(k, d) == [kind |-> k, data |-> d]

\* an exception record of three u16
Exception_parse_three(b, p) == u16s(3, b, p)

\* the structs that are a run of u16 fields
Exception_parse(b, p) == u16s(4, b, p)

InnerClass_parse(b, p) == u16s(4, b, p)

EnclosingMethod_parse(b, p) == u16s(2, b, p)

Signature_parse(b, p) == u16s(1, b, p)

SourceFile_parse(b, p) == u16s(1, b, p)

LineNumber_parse(b, p) == u16s(2, b, p)

LocalVariable_parse(b, p) == u16s(5, b, p)

LocalVariableType_parse(b, p) == u16s(5, b, p)

LocalVar_parse(b, p) == u16s(3, b, p)

Parameter_parse(b, p) == u16s(2, b, p)

Requires_parse(b, p) == u16s(3, b, p)

Path_parse(b, p) ==
    Bind(u8(b, p), LAMBDA k:
    Bind(u8(b, k.pos), LAMBDA a:
    Ok(a.pos, <<k.val, a.val>>)))

\* a variant that carries the next byte for its u16
with_u16_of_one_byte(k, b, p) ==
    Bind(u8(b, p), LAMBDA r: Ok(r.pos, Variant(k, <<r.val>>)))

\* a variant that carries one u16
with_u16(k, b, p) ==
    Bind(be_u16(b, p), LAMBDA r: Ok(r.pos, Variant(k, <<r.val>>)))

VerificationTypeInfo_parse(b, p) ==
    Bind(u8(b, p), LAMBDA t:
    CASE t.val = 0 -> Ok(t.pos, Variant("TopVariableInfo", <<>>))
      [] t.val = 1 -> Ok(t.pos, Variant("IntegerVariableInfo", <<>>))
      [] t.val = 2 -> Ok(t.pos, Variant("FloatVariableInfo", <<>>))
      [] t.val = 3 -> Ok(t.pos, Variant("DoubleVariableInfo", <<>>))
      [] t.val = 4 -> Ok(t.pos, Variant("LongVariableInfo", <<>>))
      [] t.val = 5 -> Ok(t.pos, Variant("NullVariableInfo", <<>>))
      [] t.val = 6 -> Ok(t.pos, Variant("UninitializedThisVariableInfo", <<>>))
      [] t.val = 7 -> with_u16("ObjectVariableInfo", b, t.pos)
      [] t.val = 8 -> with_u16("UninitializedVariableInfo", b, t.pos)
      [] OTHER -> Panic(t.pos, "unimplemented verification tag"))

\* the parsers handed to count, by name.  Apply(f, b, p) is f(b, p).
RECURSIVE Apply(_, _, _)
RECURSIVE count(_, _, _, _)

\* a count that collects its elements last first
count_last_first(f, n, b, p) ==
    IF n = 0 THEN Ok(p, <<>>)
    ELSE Bind(Apply(f, b, p), LAMBDA r:
         Bind(count(f, n - 1, b, r.pos), LAMBDA rest:
         Ok(rest.pos, rest.val \o <<r.val>>)))

\* count(f, n): f applied n times, the first failure is the failure of the whole
count(f, n, b, p) ==
    IF n = 0 THEN Ok(p, <<>>)
    ELSE Bind(Apply(f, b, p), LAMBDA r:
         Bind(count(f, n - 1, b, r.pos), LAMBDA rest:
         Ok(rest.pos, <<r.val>> \o rest.val)))

\* a u16 count followed by that many f
counted_u16(f, b, p) ==
    Bind(be_u16(b, p), LAMBDA n: count(f, n.val, b, n.pos))

\* a u8 count followed by that many f
counted_u8(f, b, p) ==
    Bind(u8(b, p), LAMBDA n: count(f, n.val, b, n.pos))

\* locals that number x - 252
append_locals_one_less(x, b, p) ==
    IF x >= 252 THEN count("VerificationTypeInfo", x - 252, b, p)
    ELSE Panic(p, "attempt to subtract with overflow")

\* the locals of the arm `x if (242..=254).contains(&x)`:
\* count(VerificationTypeInfo::parse, x as usize - 251)
append_locals(x, b, p) ==
    IF x >= 251 THEN count("VerificationTypeInfo", x - 251, b, p)
    ELSE IF checked THEN Panic(p, "attempt to subtract with overflow")
    ELSE IF build = "release_prealloc" THEN Panic(p, "capacity overflow")
    ELSE count("VerificationTypeInfo", Huge, b, p)

StackMapFrame_parse(b, p) ==
    Bind(u8(b, p), LAMBDA t:
    IF t.val >= 0 /\ t.val <= 63 THEN Ok(t.pos, Variant("SameFrame", <<>>))
    ELSE IF t.val >= 64 /\ t.val <= 127
    THEN Bind(VerificationTypeInfo_parse(b, t.pos), LAMBDA v:
         Ok(v.pos, Variant("SameLocals1StackItemFrame", <<v.val>>)))
    ELSE IF t.val = 247
    THEN Bind(be_u16(b, t.pos), LAMBDA d:
         Bind(VerificationTypeInfo_parse(b, d.pos), LAMBDA v:
         Ok(v.pos, Variant("SameLocals1StackItemFrameExtended",
                           <<d.val, v.val>>))))
    ELSE IF t.val >= 248 /\ t.val <= 250
    THEN with_u16("ChopFrame", b, t.pos)
    ELSE IF t.val = 251
    THEN with_u16("SameFrameExtended", b, t.pos)
    ELSE IF t.val >= 242 /\ t.val <= 254
    THEN Bind(be_u16(b, t.pos), LAMBDA d:
         Bind(append_locals(t.val, b, d.pos), LAMBDA locals:
         Ok(locals.pos, Variant("AppendFrame", <<d.val, locals.val>>))))
    ELSE IF t.val = 255
    THEN Bind(be_u16(b, t.pos), LAMBDA d:
         Bind(be_u16(b, d.pos), LAMBDA nl:
         Bind(count("VerificationTypeInfo", nl.val, b, nl.pos), LAMBDA locals:
         Bind(be_u16(b, locals.pos), LAMBDA ns:
         Bind(count("VerificationTypeInfo", ns.val, b, ns.pos), LAMBDA stack:
         Ok(stack.pos, Variant("FullFrame",
              <<d.val, nl.val, locals.val, ns.val, stack.val>>)))))))
    ELSE Panic(t.pos, "unimplemented stack map frame"))

StackMapTable_parse(b, p) == counted_u16("StackMapFrame", b, p)

Exceptions_parse(b, p) == counted_u16("be_u16", b, p)

InnerClasses_parse(b, p) == counted_u16("InnerClass", b, p)

RECURSIVE ElementValue_parse(_, _)

\* the loop shared by Annotation::parse and TypeAnnotation::parse:
\* n times a u16 element_name_index and an ElementValue
RECURSIVE element_value_pairs(_, _, _)
element_value_pairs(n, b, p) ==
    IF n = 0 THEN Ok(p, <<>>)
    ELSE Bind(be_u16(b, p), LAMBDA name:
         Bind(ElementValue_parse(b, name.pos), LAMBDA v:
         Bind(element_value_pairs(n - 1, b, v.pos), LAMBDA rest:
         Ok(rest.pos, <<(<<name.val, v.val>>)>> \o rest.val))))

\* an annotation that reads its pair count before its type_index
Annotation_parse_count_first(b, p) ==
    Bind(be_u16(b, p), LAMBDA n:
    Bind(be_u16(b, n.pos), LAMBDA type_index:
    Bind(element_value_pairs(n.val, b, type_index.pos), LAMBDA pairs:
    Ok(pairs.pos, [type_index |-> type_index.val,
                   element_value_pairs |-> pairs.val]))))

Annotation_parse(b, p) ==
    Bind(be_u16(b, p), LAMBDA type_index:
    Bind(be_u16(b, type_index.pos), LAMBDA n:
    Bind(element_value_pairs(n.val, b, n.pos), LAMBDA pairs:
    Ok(pairs.pos, [type_index |-> type_index.val,
                   element_value_pairs |-> pairs.val]))))

ElementValue_parse(b, p) ==
    Bind(u8(b, p), LAMBDA t:
    IF t.val \in {66, 67, 68, 70, 73, 74, 83, 90, 115}
    THEN with_u16("ConstValue", b, t.pos)
    ELSE IF t.val = 101
    THEN Bind(u16s(2, b, t.pos), LAMBDA r:
         Ok(r.pos, Variant("EnumConstValue", r.val)))
    ELSE IF t.val = 99
    THEN with_u16("ClassInfoIndex", b, t.pos)
    ELSE IF t.val = 64
    THEN Bind(Annotation_parse(b, t.pos), LAMBDA r:
         Ok(r.pos, Variant("AnnotationValue", <<r.val>>)))
    ELSE IF t.val = 91
    THEN Bind(counted_u16("ElementValue", b, t.pos), LAMBDA r:
         Ok(r.pos, Variant("ArrayValue", r.val)))
    ELSE Panic(t.pos, "unimplemented element value tag"))

ParameterAnnotation_parse(b, p) == counted_u16("Annotation", b, p)

\* a variant that carries one u8
with_u8(k, b, p) ==
    Bind(u8(b, p), LAMBDA r: Ok(r.pos, Variant(k, <<r.val>>)))

TargetInfo_parse(b, p, target_type) ==
    CASE target_type \in {0, 1} -> with_u8("TypeParameter", b, p)
      [] target_type = 16 -> with_u16("SuperType", b, p)
      [] target_type \in {17, 18} ->
            Bind(u8(b, p), LAMBDA t:
            Bind(u8(b, t.pos), LAMBDA bound:
            Ok(bound.pos, Variant("TypeParameterBound", <<t.val, bound.val>>))))
      [] target_type \in {19, 20, 21} -> Ok(p, Variant("Empty", <<>>))
      [] target_type = 22 -> with_u8("FormalParameter", b, p)
      [] target_type = 23 -> with_u16("Throws", b, p)
      [] target_type \in {64, 65} ->
            Bind(counted_u16("LocalVar", b, p), LAMBDA table:
            Ok(table.pos, Variant("LocalVar", table.val)))
      [] target_type = 66 -> with_u16("Catch", b, p)
      [] target_type \in {67, 68, 69, 70} -> with_u16("Offset", b, p)
      [] target_type \in {71, 72, 73, 74, 75} ->
            Bind(be_u16(b, p), LAMBDA offset:
            Bind(u8(b, offset.pos), LAMBDA arg:
            Ok(arg.pos, Variant("TypeArgument", <<offset.val, arg.val>>))))
      [] OTHER -> Panic(p, "unimplemented target type")

\* a type path whose length is a u16
TypePath_parse_u16_length(b, p) == counted_u16("Path", b, p)

TypePath_parse(b, p) == counted_u8("Path", b, p)

TypeAnnotation_parse(b, p) ==
    Bind(u8(b, p), LAMBDA target_type:
    Bind(TargetInfo_parse(b, target_type.pos, target_type.val), LAMBDA target_info:
    Bind(TypePath_parse(b, target_info.pos), LAMBDA target_path:
    Bind(be_u16(b, target_path.pos), LAMBDA type_index:
    Bind(be_u16(b, type_index.pos), LAMBDA n:
    Bind(element_value_pairs(n.val, b, n.pos), LAMBDA pairs:
    Ok(pairs.pos, [target_type |-> target_type.val,
                   target_info |-> target_info.val,
                   target_path |-> target_path.val,
                   type_index |-> type_index.val,
                   element_value_pairs |-> pairs.val])))))))

\* a run of k u16 fields followed by a u16-counted list of u16
fields_then_list(k, b, p) ==
    Bind(u16s(k, b, p), LAMBDA h:
    Bind(counted_u16("be_u16", b, h.pos), LAMBDA l:
    Ok(l.pos, Append(h.val, l.val))))

BootstrapMethod_parse(b, p) == fields_then_list(1, b, p)

Exports_parse(b, p) == fields_then_list(2, b, p)

Opens_parse(b, p) == fields_then_list(2, b, p)

Provides_parse(b, p) == fields_then_list(1, b, p)

Module_parse(b, p) ==
    Bind(u16s(3, b, p), LAMBDA h:
    Bind(counted_u16("Requires", b, h.pos), LAMBDA requires:
    Bind(counted_u16("Exports", b, requires.pos), LAMBDA exports:
    Bind(counted_u16("Opens", b, exports.pos), LAMBDA opens:
    Bind(counted_u16("be_u16", b, opens.pos), LAMBDA uses:
    Bind(counted_u16("Provides", b, uses.pos), LAMBDA provides:
    Ok(provides.pos, h.val \o <<requires.val, exports.val, opens.val,
                                uses.val, provides.val>>)))))))

\* an envelope whose info runs to the end of the buffer
AttributeInfo_parse_to_the_end(b, p) ==
    Bind(be_u16(b, p), LAMBDA attribute_name_index:
    Bind(be_u32(b, attribute_name_index.pos), LAMBDA attribute_length:
    Bind(take(attribute_length.val, b, attribute_length.pos), LAMBDA info:
    Ok(info.pos, [attribute_name_index |-> attribute_name_index.val,
                  attribute_length |-> attribute_length.val,
                  info |-> SubSeq(b, attribute_length.pos + 1, Len(b))]))))

\* the raw envelope
AttributeInfo_parse(b, p) ==
    Bind(be_u16(b, p), LAMBDA attribute_name_index:
    Bind(be_u32(b, attribute_name_index.pos), LAMBDA attribute_length:
    Bind(take(attribute_length.val, b, attribute_length.pos), LAMBDA info:
    Ok(info.pos, [attribute_name_index |-> attribute_name_index.val,
                  attribute_length |-> attribute_length.val,
                  info |-> info.val]))))

Apply(f, b, p) ==
    CASE f = "be_u16" -> be_u16(b, p)
      [] f = "Exception" -> Exception_parse(b, p)
      [] f = "StackMapFrame" -> StackMapFrame_parse(b, p)
      [] f = "VerificationTypeInfo" -> VerificationTypeInfo_parse(b, p)
      [] f = "InnerClass" -> InnerClass_parse(b, p)
      [] f = "LineNumber" -> LineNumber_parse(b, p)
      [] f = "LocalVariable" -> LocalVariable_parse(b, p)
      [] f = "LocalVariableType" -> LocalVariableType_parse(b, p)
      [] f = "Annotation" -> Annotation_parse(b, p)
      [] f = "ElementValue" -> ElementValue_parse(b, p)
      [] f = "ParameterAnnotation" -> ParameterAnnotation_parse(b, p)
      [] f = "TypeAnnotation" -> TypeAnnotation_parse(b, p)
      [] f = "LocalVar" -> LocalVar_parse(b, p)
      [] f = "Path" -> Path_parse(b, p)
      [] f = "BootstrapMethod" -> BootstrapMethod_parse(b, p)
      [] f = "Parameter" -> Parameter_parse(b, p)
      [] f = "Requires" -> Requires_parse(b, p)
      [] f = "Exports" -> Exports_parse(b, p)
      [] f = "Opens" -> Opens_parse(b, p)
      [] f = "Provides" -> Provides_parse(b, p)
      [] f = "AttributeInfo" -> AttributeInfo_parse(b, p)

-----------------------------------------------------------------------------
(* attribute.rs: the names Attribute::parse matches, as their UTF-8 bytes *)

Name_ConstantValue ==
    <<67, 111, 110, 115, 116, 97, 110, 116, 86, 97, 108, 117, 101>>

Name_Code ==
    <<67, 111, 100, 101>>

Name_StackMapTable ==
    <<83, 116, 97, 99, 107, 77, 97, 112, 84, 97, 98, 108, 101>>

Name_Exceptions ==
    <<69, 120, 99, 101, 112, 116, 105, 111, 110, 115>>

Name_InnerClasses ==
    <<73, 110, 110, 101, 114, 67, 108, 97, 115, 115, 101, 115>>

Name_EnclosingMethod ==
    <<69, 110, 99, 108, 111, 115, 105, 110, 103, 77, 101, 116, 104, 111, 100>>

Name_Synthetic ==
    <<83, 121, 110, 116, 104, 101, 116, 105, 99>>

Name_Signature ==
    <<83, 105, 103, 110, 97, 116, 117, 114, 101>>

Name_SourceFile ==
    <<83, 111, 117, 114, 99, 101, 70, 105, 108, 101>>

Name_SourceDebugExtension ==
    <<83, 111, 117, 114, 99, 101, 68, 101, 98, 117, 103, 69, 120, 116, 101, 110, 115, 105, 111, 110>>

Name_LineNumberTable ==
    <<76, 105, 110, 101, 78, 117, 109, 98, 101, 114, 84, 97, 98, 108, 101>>

Name_LocalVariableTable ==
    <<76, 111, 99, 97, 108, 86, 97, 114, 105, 97, 98, 108, 101, 84, 97, 98, 108, 101>>

Name_LocalVariableTypeTable ==
    <<76, 111, 99, 97, 108, 86, 97, 114, 105, 97, 98, 108, 101, 84, 121, 112, 101, 84, 97, 98, 108, 101>>

Name_Deprecated ==
    <<68, 101, 112, 114, 101, 99, 97, 116, 101, 100>>

Name_RuntimeVisibleAnnotations ==
    <<82, 117, 110, 116, 105, 109, 101, 86, 105, 115, 105, 98, 108, 101, 65, 110, 110, 111, 116, 97, 116, 105, 111, 110, 115>>

Name_RuntimeInvisibleAnnotations ==
    <<82, 117, 110, 116, 105, 109, 101, 73, 110, 118, 105, 115, 105, 98, 108, 101, 65, 110, 110, 111, 116, 97, 116, 105, 111, 110, 115>>

Name_RuntimeVisibleParameterAnnotations ==
    <<82, 117, 110, 116, 105, 109, 101, 86, 105, 115, 105, 98, 108, 101, 80, 97, 114, 97, 109, 101, 116, 101, 114, 65, 110, 110, 111, 116, 97, 116, 105, 111, 110, 115>>

Name_RuntimeInvisibleParameterAnnotations ==
    <<82, 117, 110, 116, 105, 109, 101, 73, 110, 118, 105, 115, 105, 98, 108, 101, 80, 97, 114, 97, 109, 101, 116, 101, 114, 65, 110, 110, 111, 116, 97, 116, 105, 111, 110, 115>>

Name_RuntimeVisibleTypeAnnotations ==
    <<82, 117, 110, 116, 105, 109, 101, 86, 105, 115, 105, 98, 108, 101, 84, 121, 112, 101, 65, 110, 110, 111, 116, 97, 116, 105, 111, 110, 115>>

Name_RuntimeInvisibleTypeAnnotations ==
    <<82, 117, 110, 116, 105, 109, 101, 73, 110, 118, 105, 115, 105, 98, 108, 101, 84, 121, 112, 101, 65, 110, 110, 111, 116, 97, 116, 105, 111, 110, 115>>

Name_AnnotationDefault ==
    <<65, 110, 110, 111, 116, 97, 116, 105, 111, 110, 68, 101, 102, 97, 117, 108, 116>>

Name_BootstrapMethods ==
    <<66, 111, 111, 116, 115, 116, 114, 97, 112, 77, 101, 116, 104, 111, 100, 115>>

Name_MethodParameters ==
    <<77, 101, 116, 104, 111, 100, 80, 97, 114, 97, 109, 101, 116, 101, 114, 115>>

Name_Module ==
    <<77, 111, 100, 117, 108, 101>>

Name_ModulePackages ==
    <<77, 111, 100, 117, 108, 101, 80, 97, 99, 107, 97, 103, 101, 115>>

Name_ModuleMainClass ==
    <<77, 111, 100, 117, 108, 101, 77, 97, 105, 110, 67, 108, 97, 115, 115>>

Name_NestHost ==
    <<78, 101, 115, 116, 72, 111, 115, 116>>

Name_NestMembers ==
    <<78, 101, 115, 116, 77, 101, 109, 98, 101, 114, 115>>

Name_RecordComponentInfo ==
    <<82, 101, 99, 111, 114, 100, 67, 111, 109, 112, 111, 110, 101, 110, 116, 73, 110, 102, 111>>

Name_PermittedSubclasses ==
    <<80, 101, 114, 109, 105, 116, 116, 101, 100, 83, 117, 98, 99, 108, 97, 115, 115, 101, 115>>

-----------------------------------------------------------------------------
(* attribute.rs: Attribute::parse and what it recurses through *)

\* constant_pool.get(attribute_name_index as usize - 1).unwrap()
\* val is the entry, pos its place in the stored sequence (from 1)
constant_pool_lookup(attribute_name_index, pool) ==
    IF attribute_name_index = 0 /\ checked
    THEN Panic(0, "attempt to subtract with overflow")
    ELSE IF attribute_name_index = 0 \/ attribute_name_index - 1 >= Len(pool)
    THEN Panic(0, "unwrap on None")
    ELSE Ok(attribute_name_index, pool[attribute_name_index])

RECURSIVE Attribute_parse(_, _, _)

\* .unwrap() on a Result: an Err panics
unwrap(r) == IF r.st = "err" THEN Panic(r.pos, "unwrap on Err") ELSE r

\* attributes.into_iter().map(|attr| Attribute::parse(..).unwrap()).collect()
RECURSIVE from_attribute_info(_, _)
from_attribute_info(infos, pool) ==
    IF infos = <<>> THEN Ok(0, <<>>)
    ELSE Bind(unwrap(Attribute_parse(Head(infos).attribute_name_index,
                                     Head(infos).info, pool)), LAMBDA r:
         Bind(from_attribute_info(Tail(infos), pool), LAMBDA rest:
         Ok(0, <<r.val>> \o rest.val)))

Code_parse(b, p, pool) ==
    Bind(be_u16(b, p), LAMBDA max_stack:
    Bind(be_u16(b, max_stack.pos), LAMBDA max_locals:
    Bind(be_u32(b, max_locals.pos), LAMBDA code_length:
    Bind(take(code_length.val, b, code_length.pos), LAMBDA code:
    Bind(be_u16(b, code.pos), LAMBDA exception_table_length:
    Bind(count("Exception", exception_table_length.val, b,
               exception_table_length.pos), LAMBDA exception_table:
    Bind(be_u16(b, exception_table.pos), LAMBDA attributes_count:
    Bind(count("AttributeInfo", attributes_count.val, b,
               attributes_count.pos), LAMBDA infos:
    Bind(from_attribute_info(infos.val, pool), LAMBDA attributes_:
    Ok(infos.pos, [max_stack |-> max_stack.val,
                   max_locals |-> max_locals.val,
                   code_length |-> code_length.val,
                   code |-> code.val,
                   exception_table_length |-> exception_table_length.val,
                   exception_table |-> exception_table.val,
                   attributes_count |-> attributes_count.val,
                   attributes |-> attributes_.val]))))))))))

RecordComponentInfo_parse(b, p, pool) ==
    Bind(be_u16(b, p), LAMBDA name_index:
    Bind(be_u16(b, name_index.pos), LAMBDA descriptor_index:
    Bind(be_u16(b, descriptor_index.pos), LAMBDA attributes_count:
    Bind(count("AttributeInfo", attributes_count.val, b,
               attributes_count.pos), LAMBDA infos:
    Bind(from_attribute_info(infos.val, pool), LAMBDA attributes_:
    Ok(infos.pos, [name_index |-> name_index.val,
                   descriptor_index |-> descriptor_index.val,
                   attributes |-> attributes_.val]))))))

\* the for loop of the "RecordComponentInfo" arm
RECURSIVE record_components(_, _, _, _)
record_components(n, b, p, pool) ==
    IF n = 0 THEN Ok(p, <<>>)
    ELSE Bind(RecordComponentInfo_parse(b, p, pool), LAMBDA r:
         Bind(record_components(n - 1, b, r.pos, pool), LAMBDA rest:
         Ok(rest.pos, <<r.val>> \o rest.val)))

\* Ok(Attribute::K(v)) of the value of a sub-grammar
is(k, r) == Bind(r, LAMBDA v: Ok(v.pos, Variant(k, v.val)))

\* the match on name.as_str(); r is the result of the arm's sub-grammar
Attribute_dispatch(name, info, pool) ==
    CASE name = Name_ConstantValue -> is("ConstantValue", be_u16(info, 0))
      [] name = Name_Code -> is("Code", Code_parse(info, 0, pool))
      [] name = Name_StackMapTable ->
            is("StackMapTable", StackMapTable_parse(info, 0))
      [] name = Name_Exceptions -> is("Exceptions", Exceptions_parse(info, 0))
      [] name = Name_InnerClasses ->
            is("InnerClasses", InnerClasses_parse(info, 0))
      [] name = Name_EnclosingMethod ->
            is("EnclosingMethod", EnclosingMethod_parse(info, 0))
      [] name = Name_Synthetic -> Ok(0, Variant("Synthetic", <<>>))
      [] name = Name_Signature -> is("Signature", Signature_parse(info, 0))
      [] name = Name_SourceFile -> is("SourceFile", SourceFile_parse(info, 0))
      [] name = Name_SourceDebugExtension ->
            IF from_utf8_ok(info, 1)
            THEN Ok(Len(info), Variant("SourceDebugExtension", info))
            ELSE Panic(0, "from_utf8 unwrap")
      [] name = Name_LineNumberTable ->
            is("LineNumberTable", counted_u16("LineNumber", info, 0))
      [] name = Name_LocalVariableTable ->
            is("LocalVariableTable", counted_u16("LocalVariable", info, 0))
      [] name = Name_LocalVariableTypeTable ->
            is("LocalVariableTypeTable",
               counted_u16("LocalVariableType", info, 0))
      [] name = Name_Deprecated -> Ok(0, Variant("Deprecated", <<>>))
      [] name = Name_RuntimeVisibleAnnotations ->
            is("RuntimeVisibleAnnotations", counted_u16("Annotation", info, 0))
      [] name = Name_RuntimeInvisibleAnnotations ->
            is("RuntimeInvisibleAnnotations", counted_u16("Annotation", info, 0))
      [] name = Name_RuntimeVisibleParameterAnnotations ->
            is("RuntimeVisibleParameterAnnotations",
               counted_u8("ParameterAnnotation", info, 0))
      [] name = Name_RuntimeInvisibleParameterAnnotations ->
            is("RuntimeInvisibleParameterAnnotations",
               counted_u8("ParameterAnnotation", info, 0))
      [] name = Name_RuntimeVisibleTypeAnnotations ->
            is("RuntimeVisibleTypeAnnotations",
               counted_u16("TypeAnnotation", info, 0))
      [] name = Name_RuntimeInvisibleTypeAnnotations ->
            is("RuntimeInvisibleTypeAnnotations",
               counted_u16("TypeAnnotation", info, 0))
      [] name = Name_AnnotationDefault ->
            is("AnnotationDefault", ElementValue_parse(info, 0))
      [] name = Name_BootstrapMethods ->
            is("BootstrapMethods", counted_u16("BootstrapMethod", info, 0))
      [] name = Name_MethodParameters ->
            is("MethodParameters", counted_u8("Parameter", info, 0))
      [] name = Name_Module -> is("Module", Module_parse(info, 0))
      [] name = Name_ModulePackages ->
            is("ModulePackages", counted_u16("be_u16", info, 0))
      [] name = Name_ModuleMainClass -> is("ModuleMainClass", be_u16(info, 0))
      [] name = Name_NestHost -> is("NestHost", be_u16(info, 0))
      [] name = Name_NestMembers ->
            is("NestMembers", counted_u16("be_u16", info, 0))
      [] name = Name_RecordComponentInfo ->
            Bind(be_u16(info, 0), LAMBDA components_count:
            is("Record", record_components(components_count.val, info,
                                           components_count.pos, pool)))
      [] name = Name_PermittedSubclasses ->
            is("PermittedSubclasses", counted_u16("be_u16", info, 0))
      [] OTHER -> Panic(0, "Unimplemented attribute type")

\* pos of the result: the bytes of info the arm consumed (the rest it drops)
Attribute_parse(attribute_name_index, info, pool) ==
    Bind(constant_pool_lookup(attribute_name_index, pool), LAMBDA attribute_type:
    IF attribute_type.val.kind = "UTF8"
    THEN Attribute_dispatch(attribute_type.val.data, info, pool)
    ELSE Panic(0, "unimplemented"))

-----------------------------------------------------------------------------
(* fieldinfo.rs, methodinfo.rs *)

\* FieldInfo::parse_field_info and MethodInfo::parse_method_info have the
\* same body: four u16, the envelopes, their promotion
member_info(b, p, pool) ==
    Bind(be_u16(b, p), LAMBDA access_flags_:
    Bind(be_u16(b, access_flags_.pos), LAMBDA name_index:
    Bind(be_u16(b, name_index.pos), LAMBDA descriptor_index:
    Bind(be_u16(b, descriptor_index.pos), LAMBDA attributes_count:
    Bind(count("AttributeInfo", attributes_count.val, b,
               attributes_count.pos), LAMBDA infos:
    Bind(from_attribute_info(infos.val, pool), LAMBDA attributes_:
    Ok(infos.pos, [access_flags |-> access_flags_.val,
                   name_index |-> name_index.val,
                   descriptor_index |-> descriptor_index.val,
                   attributes_count |-> attributes_count.val,
                   attributes |-> attributes_.val])))))))

parse_field_info(b, p, pool) == member_info(b, p, pool)

parse_method_info(b, p, pool) == member_info(b, p, pool)

-----------------------------------------------------------------------------
(* classfile.rs: ClassFile::parse_class_file, and main.rs *)

\* a magic number with its last byte mistyped
Magic_typo == <<202, 254, 186, 191>>

\* 0xCAFEBABEu32.to_be_bytes()
Magic == <<202, 254, 186, 190>>

Unread == 0 - 1

NoLookup == [index |-> Unread, stored |-> 0]

inputVars == <<buf, build>>
headerVars == <<minor_version, major_version>>
poolVars == <<constant_pool_count, i, constant_pool>>
classVars == <<access_flags, this_class, super_class, interfaces>>
memberVars == <<fields_count, fields, methods_count, methods>>
attrVars == <<attribute_infos, attributes, consumed>>

\* what a failed parser does to parse_class_file: ? returns the Err to the
\* caller, a panic unwinds through it and aborts the process
Fail(r) ==
    /\ why' = r.why
    /\ IF r.st = "err"
       THEN pc' = "returned" /\ ret' = "Err" /\ exit' = exit
       ELSE pc' = "panic" /\ ret' = ret /\ exit' = "abort"
    /\ UNCHANGED <<inputVars, pos, headerVars, poolVars, classVars, memberVars,
                   attrVars>>

Continue(next) == pc' = next /\ UNCHANGED <<ret, why, exit>>

\* `let (buf, x) = parser(buf)?;` as a step of parse_class_file
Step(r, K(_)) == IF r.st = "ok" THEN K(r) ELSE Fail(r)

ReadMagic ==
    /\ pc = "magic"
    /\ Step(tag(Magic, buf, pos), LAMBDA r:
            /\ pos' = r.pos
            /\ Continue("version")
            /\ UNCHANGED <<inputVars, headerVars, poolVars, classVars,
                           memberVars, attrVars>>)
    /\ UNCHANGED lookup

ReadVersion ==
    /\ pc = "version"
    /\ Step(u16s(2, buf, pos), LAMBDA r:
            /\ pos' = r.pos
            /\ minor_version' = r.val[1]
            /\ major_version' = r.val[2]
            /\ Continue("constant_pool_count")
            /\ UNCHANGED <<inputVars, poolVars, classVars, memberVars,
                           attrVars>>)
    /\ UNCHANGED lookup

ReadConstantPoolCount ==
    /\ pc = "constant_pool_count"
    /\ Step(be_u16(buf, pos), LAMBDA r:
            /\ pos' = r.pos
            /\ constant_pool_count' = r.val
            /\ Continue("constant_pool")
            /\ UNCHANGED <<inputVars, headerVars, i, constant_pool, classVars,
                           memberVars, attrVars>>)
    /\ UNCHANGED lookup

\* Vec::with_capacity(constant_pool_count - 1); let mut i = 0
\* With the count 0 the subtraction overflows: the overflow check panics,
\* and without it the capacity usize::MAX is more than a Vec can hold.
with_capacity_count_minus_1(n, p) ==
    IF n # 0 THEN Ok(p, n - 1)
    ELSE IF checked THEN Panic(p, "attempt to subtract with overflow")
    ELSE Panic(p, "capacity overflow")

ConstantPoolBegin ==
    /\ pc = "constant_pool"
    /\ Step(with_capacity_count_minus_1(constant_pool_count, pos), LAMBDA r:
            /\ i' = 0
            /\ Continue("constant_pool_loop")
            /\ UNCHANGED <<inputVars, pos, headerVars, constant_pool_count,
                           constant_pool, classVars, memberVars, attrVars>>)
    /\ UNCHANGED lookup

\* one iteration of `while i < constant_pool_count - 1`
ConstantPoolEntry ==
    /\ pc = "constant_pool_loop"
    /\ i < constant_pool_count - 1
    /\ Step(parse_constant(buf, pos), LAMBDA r:
            /\ pos' = r.pos
            /\ i' = i + SlotAdvance(r.val)
            /\ constant_pool' = Append(constant_pool, r.val)
            /\ Continue("constant_pool_loop")
            /\ UNCHANGED <<inputVars, headerVars, constant_pool_count,
                           classVars, memberVars, attrVars>>)
    /\ UNCHANGED lookup

ConstantPoolEnd ==
    /\ pc = "constant_pool_loop"
    /\ ~(i < constant_pool_count - 1)
    /\ Continue("access_flags")
    /\ UNCHANGED <<inputVars, pos, headerVars, poolVars, classVars, memberVars,
                   attrVars, lookup>>

ReadClassHeader ==
    /\ pc = "access_flags"
    /\ Step(u16s(3, buf, pos), LAMBDA r:
            /\ pos' = r.pos
            /\ access_flags' = r.val[1]
            /\ this_class' = r.val[2]
            /\ super_class' = r.val[3]
            /\ Continue("interfaces")
            /\ UNCHANGED <<inputVars, headerVars, poolVars, interfaces,
                           memberVars, attrVars>>)
    /\ UNCHANGED lookup

ReadInterfaces ==
    /\ pc = "interfaces"
    /\ Step(counted_u16("be_u16", buf, pos), LAMBDA r:
            /\ pos' = r.pos
            /\ interfaces' = r.val
            /\ Continue("fields_count")
            /\ UNCHANGED <<inputVars, headerVars, poolVars, access_flags,
                           this_class, super_class, memberVars, attrVars>>)
    /\ UNCHANGED lookup

ReadFieldsCount ==
    /\ pc = "fields_count"
    /\ Step(be_u16(buf, pos), LAMBDA r:
            /\ pos' = r.pos
            /\ fields_count' = r.val
            /\ Continue("fields")
            /\ UNCHANGED <<inputVars, headerVars, poolVars, classVars, fields,
                           methods_count, methods, attrVars>>)
    /\ UNCHANGED lookup

\* one iteration of `for _ in 0..fields_count` of FieldInfo::parse
FieldInfo ==
    /\ pc = "fields"
    /\ Len(fields) < fields_count
    /\ Step(parse_field_info(buf, pos, constant_pool), LAMBDA r:
            /\ pos' = r.pos
            /\ fields' = Append(fields, r.val)
            /\ Continue("fields")
            /\ UNCHANGED <<inputVars, headerVars, poolVars, classVars,
                           fields_count, methods_count, methods, attrVars>>)
    /\ UNCHANGED lookup

FieldsEnd ==
    /\ pc = "fields"
    /\ ~(Len(fields) < fields_count)
    /\ Continue("methods_count")
    /\ UNCHANGED <<inputVars, pos, headerVars, poolVars, classVars, memberVars,
                   attrVars, lookup>>

ReadMethodsCount ==
    /\ pc = "methods_count"
    /\ Step(be_u16(buf, pos), LAMBDA r:
            /\ pos' = r.pos
            /\ methods_count' = r.val
            /\ Continue("methods")
            /\ UNCHANGED <<inputVars, headerVars, poolVars, classVars,
                           fields_count, fields, methods, attrVars>>)
    /\ UNCHANGED lookup

\* one iteration of `for _ in 0..fields_count` of MethodInfo::parse
MethodInfo ==
    /\ pc = "methods"
    /\ Len(methods) < methods_count
    /\ Step(parse_method_info(buf, pos, constant_pool), LAMBDA r:
            /\ pos' = r.pos
            /\ methods' = Append(methods, r.val)
            /\ Continue("methods")
            /\ UNCHANGED <<inputVars, headerVars, poolVars, classVars,
                           fields_count, fields, methods_count, attrVars>>)
    /\ UNCHANGED lookup

MethodsEnd ==
    /\ pc = "methods"
    /\ ~(Len(methods) < methods_count)
    /\ Continue("attributes")
    /\ UNCHANGED <<inputVars, pos, headerVars, poolVars, classVars, memberVars,
                   attrVars, lookup>>

\* attributes_count and count(AttributeInfo::parse, attributes_count)
ReadAttributeInfos ==
    /\ pc = "attributes"
    /\ Step(counted_u16("AttributeInfo", buf, pos), LAMBDA r:
            /\ pos' = r.pos
            /\ attribute_infos' = r.val
            /\ Continue("from_attribute_info")
            /\ UNCHANGED <<inputVars, headerVars, poolVars, classVars,
                           memberVars, attributes, consumed>>)
    /\ UNCHANGED lookup

\* what the dispatcher's constant_pool.get(..) gave for this index: the place
\* of the entry in the stored sequence (from 1), 0 for None
Dereference(attribute_name_index, pool) ==
    [index |-> attribute_name_index,
     stored |-> IF attribute_name_index >= 1 /\ attribute_name_index <= Len(pool)
                THEN attribute_name_index ELSE 0]

\* one step of the map of Attribute::from_attribute_info over the class's
\* envelopes: Attribute::parse(..).unwrap()
\* consumed records how far into info the sub-grammar read
PromoteAttribute ==
    /\ pc = "from_attribute_info"
    /\ Len(attributes) < Len(attribute_infos)
    /\ lookup' = Dereference(
            attribute_infos[Len(attributes) + 1].attribute_name_index,
            constant_pool)
    /\ Step(unwrap(Attribute_parse(
                attribute_infos[Len(attributes) + 1].attribute_name_index,
                attribute_infos[Len(attributes) + 1].info, constant_pool)),
            LAMBDA r:
            /\ attributes' = Append(attributes, r.val)
            /\ consumed' = Append(consumed, r.pos)
            /\ Continue("from_attribute_info")
            /\ UNCHANGED <<inputVars, pos, headerVars, poolVars, classVars,
                           memberVars, attribute_infos>>)

\* Ok((buf, ClassFile { .. }))
Return ==
    /\ pc = "from_attribute_info"
    /\ ~(Len(attributes) < Len(attribute_infos))
    /\ pc' = "returned"
    /\ ret' = "Ok"
    /\ UNCHANGED <<inputVars, pos, headerVars, poolVars, classVars, memberVars,
                   attrVars, lookup, why, exit>>

\* main: let (buf, class_file) = ClassFile::parse_class_file(&buf).unwrap();
Main ==
    /\ pc = "returned"
    /\ exit = "running"
    /\ exit' = IF ret = "Ok" THEN "success" ELSE "abort"
    /\ UNCHANGED <<inputVars, pc, pos, headerVars, poolVars, classVars,
                   memberVars, attrVars, lookup, ret, why>>

-----------------------------------------------------------------------------
(* The input buffers *)

\* the magic number of a class file
CafeBabe == <<202, 254, 186, 190>>

MaxPool == 2       \* entries in an enumerated constant pool
MaxCount == 4      \* the largest declared constant_pool_count enumerated
MaxAttrs == 2      \* envelopes in an enumerated class attribute list
MaxExtra == 1      \* bytes appended after a complete class file
NestingLimit == 8  \* the configured limit to the nesting of element values

U16(n) == <<n \div 256, n % 256>>

U32(n) == <<0, 0>> \o U16(n)

RECURSIVE Flatten(_)
Flatten(ss) == IF ss = <<>> THEN <<>> ELSE Head(ss) \o Flatten(Tail(ss))

SeqsUpTo(S, n) == UNION {[1..k -> S] : k \in 0..n}

Zeros(n) == [k \in 1..n |-> 0]

Prefixes(b) == {SubSeq(b, 1, k) : k \in 0..Len(b)}

Utf8(str) == <<CONSTANT_UTF8>> \o U16(Len(str)) \o str

Name_x == <<120>>

Name_Record == <<82, 101, 99, 111, 114, 100>>

Name_VendorX == <<86, 101, 110, 100, 111, 114, 88>>

IntegerEntry == <<CONSTANT_INTEGER, 0, 0, 0, 3>>

FloatEntry == <<CONSTANT_FLOAT, 63, 128, 0, 0>>

LongEntry == <<CONSTANT_LONG, 0, 0, 0, 0, 0, 0, 0, 7>>

DoubleEntry == <<CONSTANT_DOUBLE, 64, 0, 0, 0, 0, 0, 0, 0>>

\* an envelope that declares len bytes and is followed by body
EnvelopeOf(name_index, len, body) == U16(name_index) \o U32(len) \o body

Envelope(name_index, body) == EnvelopeOf(name_index, Len(body), body)

\* minor 0, major 61
Version == <<0, 0, 0, 61>>

\* access_flags, this_class, super_class, no interfaces
ClassHeader == <<0, 33, 0, 0, 0, 0, 0, 0>>

\* no fields, no methods
NoMembers == <<0, 0, 0, 0>>

NoAttributes == <<0, 0>>

File(n, entries, fieldsAndMethods, envelopes) ==
    CafeBabe \o Version \o U16(n) \o Flatten(entries) \o ClassHeader
          \o fieldsAndMethods \o U16(Len(envelopes)) \o Flatten(envelopes)

\* Magic: buffers that differ from a minimal class file in their first bytes
MagicInputs ==
    {m \o Version \o U16(1) \o ClassHeader \o NoMembers \o NoAttributes :
        m \in {CafeBabe, <<222, 173, 190, 239>>, <<202, 254, 186, 191>>,
               <<203, 254, 186, 190>>, <<202, 254, 186>>, <<>>}}

\* Pools: every declared count against every short pool over these entries,
\* each followed by an empty class body
PoolSamples ==
    {Utf8(Name_x), IntegerEntry, FloatEntry, LongEntry, DoubleEntry,
     <<CONSTANT_CLASS, 0, 1>>, <<CONSTANT_METHOD_HANDLE, 1, 0, 1>>,
     <<CONSTANT_NAME_AND_TYPE, 0, 1, 0, 1>>, <<2>>, <<CONSTANT_UTF8, 0, 1, 255>>}

PoolInputs ==
    {File(n, es, NoMembers, <<>>) :
        n \in 0..MaxCount, es \in SeqsUpTo(PoolSamples, MaxPool)}

\* Attributes: one pool of names with a Long in it, and every short list of
\* class attributes over these envelopes.
\* external index: 1 Synthetic, 2 ConstantValue, 3-4 the Long, 5 Code,
\* 6 Record, 7 RecordComponentInfo, 8 VendorX, 9 an Integer
NamePool ==
    <<Utf8(Name_Synthetic), Utf8(Name_ConstantValue), LongEntry,
      Utf8(Name_Code), Utf8(Name_Record), Utf8(Name_RecordComponentInfo),
      Utf8(Name_VendorX), IntegerEntry>>

\* the declared count at which the loop of ConstantPool::parse stops after
\* these entries: one more than the entries plus one for the Long
NamePoolCount == Len(NamePool) + 2

\* one record component: name_index, descriptor_index, one Synthetic attribute
ComponentBody == U16(1) \o U16(1) \o U16(1) \o Envelope(1, <<>>)

\* max_stack 2, max_locals 1, code B1, no exceptions, one Synthetic attribute
CodeBody ==
    U16(2) \o U16(1) \o U32(1) \o <<177>> \o U16(0) \o U16(1) \o Envelope(1, <<>>)

EnvelopeSamples ==
    {Envelope(1, <<>>), Envelope(1, <<0>>),
     Envelope(2, U16(9)), Envelope(2, U16(9) \o U16(0)), Envelope(2, <<0>>),
     Envelope(0, <<>>), Envelope(3, <<>>), Envelope(4, CodeBody),
     Envelope(5, CodeBody), Envelope(5, U16(0)),
     Envelope(6, U16(1) \o ComponentBody), Envelope(6, U16(0)),
     Envelope(7, U16(0)), Envelope(8, <<>>), Envelope(9, <<>>),
     EnvelopeOf(1, 3, <<0>>)}

AttributeInputs ==
    {File(NamePoolCount, NamePool, NoMembers, es) :
        es \in SeqsUpTo(EnvelopeSamples, MaxAttrs)}

\* Members: fields and methods that carry attributes
\* access_flags, name_index, descriptor_index, the attributes
Member(envelopes) ==
    U16(1) \o U16(1) \o U16(1) \o U16(Len(envelopes)) \o Flatten(envelopes)

MemberSamples ==
    {<<>>, <<Envelope(1, <<>>)>>, <<Envelope(4, CodeBody)>>,
     <<Envelope(2, U16(9)), Envelope(1, <<>>)>>, <<Envelope(8, <<>>)>>,
     <<Envelope(2, <<0>>)>>}

MemberInputs ==
    {File(NamePoolCount, NamePool,
          U16(Len(fs)) \o Flatten([k \in 1..Len(fs) |-> Member(fs[k])])
            \o U16(Len(ms)) \o Flatten([k \in 1..Len(ms) |-> Member(ms[k])]),
          <<Envelope(1, <<>>)>>) :
        fs \in SeqsUpTo(MemberSamples, 1), ms \in SeqsUpTo(MemberSamples, 1)}

\* a complete class file with one interface, one field, one method, one
\* attribute, and every buffer it is cut short to or extended to
FullFile ==
    CafeBabe \o Version \o U16(NamePoolCount) \o Flatten(NamePool)
          \o <<0, 33, 0, 0, 0, 0, 0, 1, 0, 9>>
          \o U16(1) \o Member(<<Envelope(2, U16(9))>>)
          \o U16(1) \o Member(<<Envelope(4, CodeBody)>>)
          \o U16(1) \o Envelope(1, <<>>)

TruncatedInputs == Prefixes(FullFile)

ExtendedInputs ==
    {f \o Zeros(n) :
        f \in {FullFile, File(1, <<>>, NoMembers, <<>>)}, n \in 0..MaxExtra}

\* Sub-grammars: a pool of names with no two-slot entry in it, so that an
\* index is the place of its entry.
\* 1 StackMapTable, 2 Code, 3 RuntimeVisibleAnnotations,
\* 4 RuntimeVisibleTypeAnnotations, 5 Synthetic, 6 Deprecated,
\* 7 AnnotationDefault, 8 RecordComponentInfo
GrammarPool ==
    <<Utf8(Name_StackMapTable), Utf8(Name_Code),
      Utf8(Name_RuntimeVisibleAnnotations),
      Utf8(Name_RuntimeVisibleTypeAnnotations), Utf8(Name_Synthetic),
      Utf8(Name_Deprecated), Utf8(Name_AnnotationDefault),
      Utf8(Name_RecordComponentInfo)>>

GrammarPoolCount == Len(GrammarPool) + 1

\* a class file over GrammarPool with these class attributes and no members
GrammarFile(envelopes) ==
    File(GrammarPoolCount, GrammarPool, NoMembers, envelopes)

\* Order: class files whose interfaces, fields, methods, attributes, nested
\* attributes and record components are pairwise different, in either order
MemberOf(flags, envelopes) ==
    U16(flags) \o U16(1) \o U16(1) \o U16(Len(envelopes)) \o Flatten(envelopes)

\* a Code body with these nested attributes
CodeWith(envelopes) ==
    U16(2) \o U16(1) \o U32(1) \o <<177>> \o U16(0)
        \o U16(Len(envelopes)) \o Flatten(envelopes)

\* a record component with this name_index and these attributes
ComponentWith(name_index, envelopes) ==
    U16(name_index) \o U16(1) \o U16(Len(envelopes)) \o Flatten(envelopes)

\* the two orders of a pair
Orders(x, y) == {<<x, y>>, <<y, x>>}

OrderInputs ==
    {CafeBabe \o Version \o U16(GrammarPoolCount) \o Flatten(GrammarPool)
        \o <<0, 33, 0, 0, 0, 0>> \o U16(2) \o Flatten(is_)
        \o U16(2) \o MemberOf(1, as) \o MemberOf(2, <<as[2], as[1]>>)
        \o U16(2) \o MemberOf(4, <<Envelope(2, CodeWith(as))>>)
                  \o MemberOf(8, <<Envelope(2, CodeWith(<<as[2], as[1]>>))>>)
        \o U16(2)
        \o Envelope(8, U16(2) \o ComponentWith(1, as)
                              \o ComponentWith(2, <<as[2], as[1]>>))
        \o as[1] :
        is_ \in Orders(U16(3), U16(4)),
        as \in Orders(Envelope(5, <<>>), Envelope(6, <<>>))}

\* Stack map frames: a frame of every tag at the edge of a range of the
\* table, followed by each of these payloads; and every table of two whole
\* frames
FrameTags == {0, 63, 64, 127, 128, 241, 242, 246, 247, 248, 250, 251, 252,
              253, 254, 255}

FramePayloads ==
    {<<>>, <<1>>, <<7, 0, 9>>, <<9>>, <<0, 5>>, <<0, 5, 1>>, <<0, 5, 8, 0, 9>>,
     <<0, 5, 1, 7, 0, 9>>, <<0, 5, 1, 2, 3>>, <<0, 5, 0, 0, 0, 0>>,
     <<0, 5, 0, 1, 1, 0, 2, 7, 0, 9, 4>>}

WholeFrames ==
    {<<0>>, <<63>>, <<64, 1>>, <<127, 7, 0, 9>>, <<247, 0, 5, 1>>,
     <<248, 0, 5>>, <<250, 0, 5>>, <<251, 0, 5>>, <<252, 0, 5, 1>>,
     <<253, 0, 5, 1, 7, 0, 9>>, <<254, 0, 5, 1, 2, 3>>,
     <<255, 0, 5, 0, 1, 1, 0, 2, 7, 0, 9, 4>>}

FrameInputs ==
    {GrammarFile(<<Envelope(1, U16(1) \o <<t>> \o payload)>>) :
        t \in FrameTags, payload \in FramePayloads}
    \cup {GrammarFile(<<Envelope(1, U16(2) \o f \o g)>>) :
            f \in WholeFrames, g \in WholeFrames}

\* Verification types: a frame of tag 64 with a verification type of each
\* of these tags, followed by none, one or two bytes
VtiTags == 0..10 \cup {255}

VtiInputs ==
    {GrammarFile(<<Envelope(1, U16(1) \o <<64, t>> \o rest)>>) :
        t \in VtiTags, rest \in {<<>>, <<1>>, <<1, 9>>}}

\* Code: bodies of every code, exception table and nested attribute list of
\* these, and every body that one of them is cut short to
CodeOf(code, exceptions, envelopes) ==
    U16(2) \o U16(1) \o U32(Len(code)) \o code
        \o U16(Len(exceptions)) \o Flatten(exceptions)
        \o U16(Len(envelopes)) \o Flatten(envelopes)

CodeSamples ==
    {CodeOf(code, exceptions, envelopes) :
        code \in {<<>>, <<177>>, <<42, 177>>},
        exceptions \in {<<>>, <<(<<0, 1, 0, 2, 0, 3, 0, 4>>)>>,
                        <<(<<0, 1, 0, 2, 0, 3, 0, 4>>),
                          (<<0, 5, 0, 6, 0, 7, 0, 8>>)>>},
        envelopes \in {<<>>, <<Envelope(5, <<>>)>>,
                       <<Envelope(5, <<>>), Envelope(6, <<>>)>>,
                       <<Envelope(6, <<>>), Envelope(5, <<>>)>>,
                       <<Envelope(2, CodeWith(<<>>))>>}}

CodeInputs ==
    {GrammarFile(<<Envelope(2, body)>>) :
        body \in CodeSamples
            \cup Prefixes(CodeOf(<<42, 177>>, <<(<<0, 1, 0, 2, 0, 3, 0, 4>>)>>,
                                 <<Envelope(5, <<>>)>>))}

\* Nesting: an AnnotationDefault whose element value is a constant within
\* d arrays of one element, one within the next
RECURSIVE Nested(_)
Nested(d) == IF d = 0 THEN <<73, 0, 9>> ELSE <<91, 0, 1>> \o Nested(d - 1)

NestingInputs ==
    {GrammarFile(<<Envelope(7, Nested(d))>>) : d \in {0, 1, 2, NestingLimit + 2}}

\* Element values: an AnnotationDefault of every tag followed by each of
\* these bytes, arrays and annotations of up to two constants, and
\* RuntimeVisibleAnnotations of up to two of these annotations
ConstTags == {66, 67, 68, 70, 73, 74, 83, 90, 115}

ElementTags == ConstTags \cup {101, 99, 64, 91, 0, 65}

ElementTails == {<<>>, <<0>>, <<1, 9>>, <<1, 9, 0, 7>>, <<0, 0>>, <<0, 0, 0, 0>>}

ConstSamples == {<<73, 0, 9>>, <<115, 1, 2>>}

PairSamples == {<<0, 5, 73, 0, 9>>, <<0, 6, 115, 1, 2>>}

AnnotationSamples ==
    {<<0, 3>> \o U16(Len(ps)) \o Flatten(ps) : ps \in SeqsUpTo(PairSamples, 2)}

ElementInputs ==
    {GrammarFile(<<Envelope(7, <<t>> \o tail)>>) :
        t \in ElementTags, tail \in ElementTails}
    \cup {GrammarFile(<<Envelope(7, <<91>> \o U16(Len(vs)) \o Flatten(vs))>>) :
            vs \in SeqsUpTo(ConstSamples, 2)}
    \cup {GrammarFile(<<Envelope(7, <<64>> \o a)>>) : a \in AnnotationSamples}
    \cup {GrammarFile(<<Envelope(3, U16(Len(as)) \o Flatten(as))>>) :
            as \in SeqsUpTo(AnnotationSamples, 2)}
    \cup {GrammarFile(<<Envelope(7, <<91, 0, 2, 64, 0, 3, 0, 1, 0, 5, 101, 0, 1,
                                      0, 2, 91, 0, 1, 99, 0, 4>>)>>)}

\* Type annotations: a RuntimeVisibleTypeAnnotations of one annotation of
\* every target_type of the format's table and of some outside it, with each
\* of these target bytes, and behind them a type path of none or two pairs,
\* a type_index, and none or one element-value pair
TargetTypes ==
    {0, 1, 16, 17, 18, 19, 20, 21, 22, 23} \cup 64..75
        \cup {2, 15, 24, 63, 76, 255}

TargetBytes ==
    {<<>>, <<7>>, <<1, 2>>, <<1, 2, 3>>, <<0, 0>>,
     <<0, 1, 0, 1, 0, 2, 0, 3>>}

TypeAnnotationRests ==
    {<<0, 0, 3, 0, 0>>,
     <<2, 0, 0, 3, 1, 0, 3, 0, 1, 0, 5, 73, 0, 9>>}

TypeAnnotationInputs ==
    {GrammarFile(<<Envelope(4, U16(1) \o <<t>> \o target \o rest)>>) :
        t \in TargetTypes, target \in TargetBytes, rest \in TypeAnnotationRests}

\* Envelope boundaries: a class attribute whose body declares more than the
\* envelope holds (a frame, code bytes, an array count), followed by
\* envelopes whose bytes would serve the declaration
BoundaryBodies ==
    {Envelope(1, <<0, 1>>), Envelope(1, <<0, 2, 0>>),
     Envelope(1, <<0, 1, 64>>),
     Envelope(2, U16(2) \o U16(1) \o U32(4) \o <<177, 177>>),
     Envelope(2, U16(2) \o U16(1) \o U32(1) \o <<177>>),
     Envelope(2, U16(2) \o U16(1) \o U32(1) \o <<177>> \o U16(0)),
     Envelope(7, <<91, 0>>), Envelope(7, <<91>>),
     Envelope(3, <<0>>), Envelope(4, <<0>>)}

BoundaryInputs ==
    {GrammarFile(<<body>> \o rest) :
        body \in BoundaryBodies,
        rest \in {<<>>, <<Envelope(5, <<>>)>>,
                  <<Envelope(5, <<>>), Envelope(6, <<>>)>>,
                  <<Envelope(6, <<0, 0>>)>>}}

\* Descent: a Code nested in the attributes of a Code, a Code in the
\* attributes of a record component, an annotation in an array in an
\* annotation, and a nested Code that declares more than it holds
DescentInputs ==
    {GrammarFile(<<Envelope(2, CodeWith(<<Envelope(2, CodeWith(inner))>>))>>) :
        inner \in {<<>>, <<Envelope(5, <<>>)>>, <<Envelope(1, <<0, 1>>)>>}}
      \cup {GrammarFile(<<Envelope(8, U16(1)
                \o ComponentWith(1, <<Envelope(2, CodeWith(<<>>))>>))>>),
            GrammarFile(<<Envelope(7, <<64, 0, 3, 0, 1, 0, 5, 91, 0, 1,
                                        64, 0, 3, 0, 0>>)>>),
            GrammarFile(<<Envelope(2, CodeWith(<<Envelope(2,
                U16(2) \o U16(1) \o U32(9) \o <<177>>)>>))>>)}

Inputs ==
    DescentInputs \cup BoundaryInputs \cup TypeAnnotationInputs \cup ElementInputs \cup NestingInputs
        \cup CodeInputs \cup VtiInputs \cup FrameInputs \cup MagicInputs
        \cup PoolInputs \cup AttributeInputs \cup MemberInputs
        \cup TruncatedInputs \cup ExtendedInputs \cup OrderInputs

-----------------------------------------------------------------------------
(* The specification *)

Init ==
    /\ buf \in Inputs
    /\ build \in Builds
    /\ pc = "magic"
    /\ pos = 0
    /\ minor_version = Unread
    /\ major_version = Unread
    /\ constant_pool_count = Unread
    /\ i = 0
    /\ constant_pool = <<>>
    /\ access_flags = Unread
    /\ this_class = Unread
    /\ super_class = Unread
    /\ interfaces = <<>>
    /\ fields_count = Unread
    /\ fields = <<>>
    /\ methods_count = Unread
    /\ methods = <<>>
    /\ attribute_infos = <<>>
    /\ attributes = <<>>
    /\ lookup = NoLookup
    /\ consumed = <<>>
    /\ ret = "none"
    /\ why = ""
    /\ exit = "running"

Next ==
    \/ ReadMagic
    \/ ReadVersion
    \/ ReadConstantPoolCount
    \/ ConstantPoolBegin
    \/ ConstantPoolEntry
    \/ ConstantPoolEnd
    \/ ReadClassHeader
    \/ ReadInterfaces
    \/ ReadFieldsCount
    \/ FieldInfo
    \/ FieldsEnd
    \/ ReadMethodsCount
    \/ MethodInfo
    \/ MethodsEnd
    \/ ReadAttributeInfos
    \/ PromoteAttribute
    \/ Return
    \/ Main

Spec == Init /\ [][Next]_vars

-----------------------------------------------------------------------------
(* The constant pool as the class-file format numbers it: an entry takes   *)
(* one logical slot, a Long or a Double two; external indices start at 1.  *)

KindCount(k) ==
    Cardinality({j \in 1..Len(constant_pool) : constant_pool[j].kind = k})

Width(e) == IF e.kind \in {"Long", "Double"} THEN 2 ELSE 1

RECURSIVE SlotsBefore(_)
SlotsBefore(k) ==
    IF k <= 1 THEN 0 ELSE SlotsBefore(k - 1) + Width(constant_pool[k - 1])

\* the external index of the k-th stored entry
FirstSlot(k) == 1 + SlotsBefore(k)

LegalIndex(x) == \E k \in 1..Len(constant_pool) : FirstSlot(k) = x

\* ConstantPool::parse has returned Ok
PoolDecoded ==
    pc \notin {"magic", "version", "constant_pool_count", "constant_pool",
               "constant_pool_loop", "panic"}
    /\ constant_pool_count # Unread
    /\ ~(i < constant_pool_count - 1)

\* the dispatcher has dereferenced the pool for a class attribute
Dereferenced == lookup.index # Unread

\* ... and found there the UTF8 entry with these bytes
ResolvedName(name) ==
    /\ Dereferenced
    /\ lookup.stored # 0
    /\ constant_pool[lookup.stored] = Entry("UTF8", name)

\* the attribute names the class-file format defines
FormatAttributeNames ==
    {Name_ConstantValue, Name_Code, Name_StackMapTable, Name_Exceptions,
     Name_InnerClasses, Name_EnclosingMethod, Name_Synthetic, Name_Signature,
     Name_SourceFile, Name_SourceDebugExtension, Name_LineNumberTable,
     Name_LocalVariableTable, Name_LocalVariableTypeTable, Name_Deprecated,
     Name_RuntimeVisibleAnnotations, Name_RuntimeInvisibleAnnotations,
     Name_RuntimeVisibleParameterAnnotations,
     Name_RuntimeInvisibleParameterAnnotations,
     Name_RuntimeVisibleTypeAnnotations, Name_RuntimeInvisibleTypeAnnotations,
     Name_AnnotationDefault, Name_BootstrapMethods, Name_MethodParameters,
     Name_Module, Name_ModulePackages, Name_ModuleMainClass, Name_NestHost,
     Name_NestMembers, Name_Record, Name_PermittedSubclasses}

\* parse_class_file has returned an Err to its caller
ReturnedErr == pc = "returned" /\ ret = "Err"

-----------------------------------------------------------------------------
(* The claims *)

\* C1: whenever ConstantPool::parse has decoded a pool of declared count
\* N >= 1, the stored entries plus the stored Long entries plus the stored
\* Double entries number N - 1 (a Long and a Double take two logical slots,
\* every other entry one).
C1_LogicalSlotsCovered ==
    (PoolDecoded /\ constant_pool_count >= 1)
        => Len(constant_pool) + KindCount("Long") + KindCount("Double")
             = constant_pool_count - 1

\* C2: whenever ConstantPool::parse has decoded a pool of declared count N
\* that holds only one-slot kinds (every kind but Long and Double, Float
\* included), it has stored exactly N - 1 entries.
C2_FloatIsOneSlot ==
    (/\ PoolDecoded
     /\ constant_pool_count >= 1
     /\ KindCount("Long") = 0
     /\ KindCount("Double") = 0)
        => Len(constant_pool) = constant_pool_count - 1

\* C3: whenever the attribute dispatcher dereferences a legal external index
\* x, it resolves x to the stored entry whose first logical slot is x.
C3_LookupThroughWideGaps ==
    Dereferenced =>
        \A k \in 1..Len(constant_pool) :
            FirstSlot(k) = lookup.index => lookup.stored = k

\* C4: whenever the attribute dispatcher dereferences an index that is 0,
\* exceeds the table or is the second slot of a Long or Double, the index
\* resolves to no entry and parse_class_file returns an IndexOutOfBounds
\* error to its caller.
C4_IllegalIndexIsAnError ==
    (Dereferenced /\ ~LegalIndex(lookup.index))
        => /\ lookup.stored = 0
           /\ ReturnedErr
           /\ why = "IndexOutOfBounds"

\* C5: the sub-grammar of every promoted class attribute has consumed
\* exactly the attribute_length bytes of its envelope.
C5_BodyConsumedExactly ==
    \A k \in 1..Len(attributes) :
        consumed[k] = attribute_infos[k].attribute_length

\* C6: whenever parse_class_file returns Ok, the cursor has consumed the
\* whole buffer.
C6_NoTrailingBytes == ret = "Ok" => pos = Len(buf)

\* C7: a buffer whose first four bytes are not CA FE BA BE makes
\* parse_class_file return an Err with nothing else read and no ClassFile
\* produced: the cursor moves past the magic only when the four bytes match.
StartsWithCafeBabe ==
    /\ Len(buf) >= 4
    /\ buf[1] = 202 /\ buf[2] = 254 /\ buf[3] = 186 /\ buf[4] = 190

C7_MagicGuard ==
    /\ (pc # "magic" /\ ~StartsWithCafeBabe)
          => /\ ReturnedErr
             /\ pos = 0
             /\ minor_version = Unread
             /\ major_version = Unread
             /\ constant_pool_count = Unread
             /\ constant_pool = <<>>
    /\ pos > 0 => (StartsWithCafeBabe /\ pos >= 4)

\* C7 witness: a buffer that differs from a class file in the fourth byte of
\* its magic only has been rejected.
C7_Witness ==
    /\ ReturnedErr
    /\ Len(buf) > 4
    /\ buf[1] = 202 /\ buf[2] = 254 /\ buf[3] = 186 /\ buf[4] # 190

\* C8: a failure inside the body of a class attribute (a truncated body, an
\* unknown discriminant, a bad index) reached through
\* Attribute::from_attribute_info makes parse_class_file return an Err: it
\* does not abort.
C8_AttributeFailureIsReturned ==
    (/\ \E name \in FormatAttributeNames : ResolvedName(name)
     /\ pc \in {"panic", "returned"}
     /\ Len(attributes) < Len(attribute_infos))
        => ReturnedErr

\* C9: an attribute whose name resolves to a UTF8 string that is none of the
\* attribute names the format defines (nor the string the dispatcher takes
\* for the name of Record) makes parse_class_file return an UnknownAttribute
\* error to its caller.
C9_UnknownAttributeIsAnError ==
    (/\ Dereferenced
     /\ lookup.stored # 0
     /\ constant_pool[lookup.stored].kind = "UTF8"
     /\ constant_pool[lookup.stored].data
            \notin FormatAttributeNames \cup {Name_RecordComponentInfo})
        => (ReturnedErr /\ why = "UnknownAttribute")

\* C10: an attribute whose name resolves to the UTF8 string "Record" is
\* decoded as the Record attribute: if its body is a record component list,
\* the promoted attribute is a Record, and if not, the decode fails with an
\* error.
C10_RecordByItsName ==
    ResolvedName(Name_Record)
        => \/ /\ pc = "from_attribute_info"
              /\ attributes # <<>>
              /\ attributes[Len(attributes)].kind = "Record"
           \/ ReturnedErr

\* C11: reading the class's attribute envelopes from a buffer in which the
\* count, a 6-byte header or the attribute_length bytes a header declares
\* run past the end of the buffer fails with an end-of-input error: the Err
\* is returned, no AttributeInfo is produced and the cursor stays within the
\* buffer.
Wire16(b, p) == b[p + 1] * 256 + b[p + 2]

Wire32(b, p) ==
    IF b[p + 1] >= 128 THEN Huge
    ELSE ((b[p + 1] * 256 + b[p + 2]) * 256 + b[p + 3]) * 256 + b[p + 4]

\* n envelopes laid out from offset p do not all lie within b
RECURSIVE EnvelopesOverrun(_, _, _)
EnvelopesOverrun(n, b, p) ==
    IF n = 0 THEN FALSE
    ELSE \/ Len(b) - p < 6
         \/ Len(b) - (p + 6) < Wire32(b, p + 2)
         \/ EnvelopesOverrun(n - 1, b, p + 6 + Wire32(b, p + 2))

\* the counted envelope list at offset p does not lie within b
AttributesOverrun(b, p) ==
    \/ Len(b) - p < 2
    \/ EnvelopesOverrun(Wire16(b, p), b, p + 2)

C11_OverrunIsEof ==
    [][(pc = "attributes" /\ AttributesOverrun(buf, pos))
          => /\ pc' = "returned"
             /\ ret' = "Err"
             /\ why' = "Eof"
             /\ attribute_infos' = <<>>
             /\ pos' <= Len(buf)]_vars

\* C11 witness: the envelope list has been rejected, and its first envelope
\* has a whole header that declares more bytes than remain.
C11_Witness ==
    /\ ReturnedErr
    /\ why = "Eof"
    /\ methods_count # Unread
    /\ Len(methods) = methods_count
    /\ Len(buf) - pos >= 8
    /\ Wire16(buf, pos) >= 1
    /\ Wire32(buf, pos + 4) > Len(buf) - (pos + 8)

\* C12: every decoded sequence is in file order.  A step that appends a pool
\* entry, a field, a method or a class attribute appends the decoding of the
\* bytes at the cursor and keeps what was decoded before; the interfaces and
\* the class's envelopes are those of the buffer, in the buffer's order; and
\* the attributes of a field, a method, a Code body and a record component,
\* and the components of a Record, follow the order of their bytes.
WireTag(kind) ==
    CASE kind = "UTF8" -> 1
      [] kind = "Integer" -> 3
      [] kind = "Float" -> 4
      [] kind = "Long" -> 5
      [] kind = "Double" -> 6
      [] kind = "Class" -> 7
      [] kind = "String" -> 8
      [] kind = "FieldRef" -> 9
      [] kind = "MethodRef" -> 10
      [] kind = "InterfaceMethodRef" -> 11
      [] kind = "NameAndType" -> 12
      [] kind = "MethodHandle" -> 15
      [] kind = "MethodType" -> 16
      [] kind = "Dynamic" -> 17
      [] kind = "InvokeDynamic" -> 18
      [] kind = "Module" -> 19
      [] kind = "Package" -> 20
      [] OTHER -> 0 - 1

\* the offset of the k-th of the envelopes laid out from offset p
RECURSIVE EnvelopeStart(_, _, _)
EnvelopeStart(k, b, p) ==
    IF k <= 1 THEN p ELSE EnvelopeStart(k - 1, b, p + 6 + Wire32(b, p + 2))

\* the offset of the k-th of the record components laid out from offset p
RECURSIVE ComponentStart(_, _, _)
ComponentStart(k, b, p) ==
    IF k <= 1 THEN p
    ELSE EnvelopeStart(Wire16(b, ComponentStart(k - 1, b, p) + 4) + 1, b,
                       ComponentStart(k - 1, b, p) + 6)

\* the offset of attributes_count in the Code body that starts at offset q
CodeAttributesAt(b, q) ==
    q + 8 + Wire32(b, q + 4) + 2 + 8 * Wire16(b, q + 8 + Wire32(b, q + 4))

\* the variant that stands for an attribute of this name ("": not tabled)
KindNamed(name) ==
    CASE name = Name_Synthetic -> "Synthetic"
      [] name = Name_Deprecated -> "Deprecated"
      [] name = Name_Code -> "Code"
      [] name = Name_ConstantValue -> "ConstantValue"
      [] name = Name_RecordComponentInfo -> "Record"
      [] OTHER -> ""

\* the elements of list are the decodings, one by one and in this order, of
\* the envelopes laid out from offset p of b; ListInOrder: list is the
\* decoding of the counted envelope list at offset p of b
RECURSIVE ListInOrder(_, _, _, _)
RECURSIVE ElementsInOrder(_, _, _, _)
ElementsInOrder(list, b, p, pool) ==
    \A k \in 1..Len(list) :
        /\ KindNamed(pool[Wire16(b, EnvelopeStart(k, b, p))].data)
              \in {"", list[k].kind}
        /\ list[k].kind = "Code" =>
              ListInOrder(list[k].data.attributes, b,
                          CodeAttributesAt(b, EnvelopeStart(k, b, p) + 6), pool)
        /\ list[k].kind = "Record" =>
              /\ Len(list[k].data) = Wire16(b, EnvelopeStart(k, b, p) + 6)
              /\ \A j \in 1..Len(list[k].data) :
                    /\ list[k].data[j].name_index
                          = Wire16(b, ComponentStart(j, b,
                                          EnvelopeStart(k, b, p) + 8))
                    /\ ListInOrder(list[k].data[j].attributes, b,
                          ComponentStart(j, b, EnvelopeStart(k, b, p) + 8) + 4,
                          pool)

ListInOrder(list, b, p, pool) ==
    Len(list) = Wire16(b, p) /\ ElementsInOrder(list, b, p + 2, pool)

\* the bytes the envelopes infos took in the buffer
RECURSIVE EnvelopesSize(_)
EnvelopesSize(infos) ==
    IF infos = <<>> THEN 0
    ELSE 6 + Len(Head(infos).info) + EnvelopesSize(Tail(infos))

\* new is old with one more element at its end
Appended(old, new) ==
    Len(new) = Len(old) + 1 /\ SubSeq(new, 1, Len(old)) = old

\* member, newly decoded, is the field or method at the cursor
MemberAtCursor(member) ==
    /\ member.access_flags = Wire16(buf, pos)
    /\ ListInOrder(member.attributes, buf, pos + 6, constant_pool)

C12_FileOrder ==
    [][/\ constant_pool' # constant_pool
          => /\ Appended(constant_pool, constant_pool')
             /\ WireTag(constant_pool'[Len(constant_pool')].kind) = buf[pos + 1]
             /\ pos' > pos
       /\ (pc = "interfaces" /\ pc' = "fields_count")
          => /\ Len(interfaces') = Wire16(buf, pos)
             /\ \A k \in 1..Len(interfaces') :
                   interfaces'[k] = Wire16(buf, pos + 2 * k)
       /\ fields' # fields
          => /\ Appended(fields, fields')
             /\ MemberAtCursor(fields'[Len(fields')])
             /\ pos' > pos
       /\ methods' # methods
          => /\ Appended(methods, methods')
             /\ MemberAtCursor(methods'[Len(methods')])
             /\ pos' > pos
       /\ (pc = "attributes" /\ pc' = "from_attribute_info")
          => /\ Len(attribute_infos') = Wire16(buf, pos)
             /\ \A k \in 1..Len(attribute_infos') :
                   /\ attribute_infos'[k].attribute_name_index
                         = Wire16(buf, EnvelopeStart(k, buf, pos + 2))
                   /\ attribute_infos'[k].info
                         = SubSeq(buf, EnvelopeStart(k, buf, pos + 2) + 7,
                                  EnvelopeStart(k + 1, buf, pos + 2))
       /\ attributes' # attributes
          => /\ Appended(attributes, attributes')
             /\ ElementsInOrder(attributes', buf,
                                pos - EnvelopesSize(attribute_infos),
                                constant_pool)]_vars

\* C12 witness: a class file has been decoded whose interfaces, fields,
\* methods and class attributes are two each and different, as are the
\* attributes nested in its fields, in the Code of its methods and in the
\* two components of its Record.
C12_Witness ==
    /\ ret = "Ok"
    /\ Len(constant_pool) >= 2
    /\ Len(interfaces) = 2 /\ interfaces[1] # interfaces[2]
    /\ Len(fields) = 2 /\ fields[1] # fields[2]
    /\ Len(fields[1].attributes) = 2
    /\ fields[1].attributes[1] # fields[1].attributes[2]
    /\ Len(methods) = 2 /\ methods[1] # methods[2]
    /\ methods[1].attributes[1].kind = "Code"
    /\ Len(methods[1].attributes[1].data.attributes) = 2
    /\ methods[1].attributes[1].data.attributes[1]
          # methods[1].attributes[1].data.attributes[2]
    /\ Len(attributes) = 2 /\ attributes[1].kind # attributes[2].kind
    /\ attributes[1].kind = "Record"
    /\ Len(attributes[1].data) = 2
    /\ attributes[1].data[1] # attributes[1].data[2]

-----------------------------------------------------------------------------
(* The stack map table as the format lays it out: the bytes a frame takes  *)
(* by its tag, Beyond when the tag is not in the table, a verification     *)
(* type tag is above 8, or the bytes do not all lie within b.              *)

Beyond == 1000 * 1000

\* the bytes of n verification types laid out from offset p
RECURSIVE VtisSize(_, _, _)
VtisSize(n, b, p) ==
    IF n = 0 THEN 0
    ELSE IF p >= Len(b) THEN Beyond
    ELSE IF b[p + 1] > 8 THEN Beyond
    ELSE IF b[p + 1] >= 7
    THEN (IF p + 3 > Len(b) THEN Beyond ELSE 3 + VtisSize(n - 1, b, p + 3))
    ELSE 1 + VtisSize(n - 1, b, p + 1)

\* the bytes of a full frame's u16-counted verification types at offset p
CountedVtisSize(b, p) ==
    IF p + 2 > Len(b) THEN Beyond ELSE 2 + VtisSize(Wire16(b, p), b, p + 2)

\* the bytes of the frame at offset p < Len(b)
FrameSize(b, p) ==
    IF b[p + 1] <= 63 THEN 1
    ELSE IF b[p + 1] <= 127 THEN 1 + VtisSize(1, b, p + 1)
    ELSE IF b[p + 1] < 247 THEN Beyond
    ELSE IF p + 3 > Len(b) THEN Beyond
    ELSE IF b[p + 1] = 247 THEN 3 + VtisSize(1, b, p + 3)
    ELSE IF b[p + 1] <= 251 THEN 3
    ELSE IF b[p + 1] <= 254 THEN 3 + VtisSize(b[p + 1] - 251, b, p + 3)
    ELSE IF CountedVtisSize(b, p + 3) >= Beyond THEN Beyond
    ELSE 3 + CountedVtisSize(b, p + 3)
           + CountedVtisSize(b, p + 3 + CountedVtisSize(b, p + 3))

\* the offset behind n frames laid out from offset p
RECURSIVE FramesEnd(_, _, _)
FramesEnd(n, b, p) ==
    IF n = 0 THEN p
    ELSE IF p >= Len(b) THEN Beyond
    ELSE IF FrameSize(b, p) >= Beyond THEN Beyond
    ELSE FramesEnd(n - 1, b, p + FrameSize(b, p))

\* b is a stack map table body of whole frames of the table
WholeTable(b) == Len(b) >= 2 /\ FramesEnd(Wire16(b, 0), b, 2) < Beyond

\* the variant the table gives a tag
TableVariant(t) ==
    IF t <= 63 THEN "SameFrame"
    ELSE IF t <= 127 THEN "SameLocals1StackItemFrame"
    ELSE IF t = 247 THEN "SameLocals1StackItemFrameExtended"
    ELSE IF t >= 248 /\ t <= 250 THEN "ChopFrame"
    ELSE IF t = 251 THEN "SameFrameExtended"
    ELSE IF t >= 252 /\ t <= 254 THEN "AppendFrame"
    ELSE IF t = 255 THEN "FullFrame"
    ELSE ""

\* the index of the envelope the next promotion takes, and the name the
\* dispatcher finds for it
NextEnvelope == attribute_infos[Len(attributes) + 1]

Promoting(name) ==
    /\ pc = "from_attribute_info"
    /\ Len(attributes) < Len(attribute_infos)
    /\ NextEnvelope.attribute_name_index \in 1..Len(constant_pool)
    /\ constant_pool[NextEnvelope.attribute_name_index] = Entry("UTF8", name)

\* the variant the format gives a verification type tag
VtiVariant(t) ==
    CASE t = 0 -> "TopVariableInfo"
      [] t = 1 -> "IntegerVariableInfo"
      [] t = 2 -> "FloatVariableInfo"
      [] t = 3 -> "DoubleVariableInfo"
      [] t = 4 -> "LongVariableInfo"
      [] t = 5 -> "NullVariableInfo"
      [] t = 6 -> "UninitializedThisVariableInfo"
      [] t = 7 -> "ObjectVariableInfo"
      [] t = 8 -> "UninitializedVariableInfo"
      [] OTHER -> ""

\* vs are the n verification types laid out from offset p of b
VtisByTable(vs, n, b, p) ==
    /\ Len(vs) = n
    /\ \A k \in 1..Len(vs) :
          vs[k].kind = VtiVariant(b[p + VtisSize(k - 1, b, p) + 1])

\* f is the frame that the table gives the bytes at offset p of b
FrameByTable(f, b, p) ==
    /\ f.kind = TableVariant(b[p + 1])
    /\ f.kind = "SameFrame" => f.data = <<>>
    /\ f.kind = "SameLocals1StackItemFrame" =>
          VtisByTable(f.data, 1, b, p + 1)
    /\ f.kind = "SameLocals1StackItemFrameExtended" =>
          /\ Len(f.data) = 2
          /\ f.data[1] = Wire16(b, p + 1)
          /\ VtisByTable(<<f.data[2]>>, 1, b, p + 3)
    /\ f.kind \in {"ChopFrame", "SameFrameExtended"} =>
          f.data = <<Wire16(b, p + 1)>>
    /\ f.kind = "AppendFrame" =>
          /\ Len(f.data) = 2
          /\ f.data[1] = Wire16(b, p + 1)
          /\ VtisByTable(f.data[2], b[p + 1] - 251, b, p + 3)
    /\ f.kind = "FullFrame" =>
          /\ Len(f.data) = 5
          /\ f.data[1] = Wire16(b, p + 1)
          /\ f.data[2] = Wire16(b, p + 3)
          /\ VtisByTable(f.data[3], f.data[2], b, p + 5)
          /\ f.data[4] = Wire16(b, p + 3 + CountedVtisSize(b, p + 3))
          /\ VtisByTable(f.data[5], f.data[4], b,
                         p + 5 + CountedVtisSize(b, p + 3))

\* C13: StackMapFrame::parse selects the variant and the payload by the tag as
\* the table has it.  Promoting a StackMapTable whose body is a count and
\* that many whole frames of tags 0..127 and 247..255 gives, in the order of
\* the bytes, for each frame the variant of its tag with the payload of that
\* variant (for 252..254 exactly tag - 251 verification types), and reads
\* exactly the bytes of those frames.
C13_FramesByTable ==
    [][(Promoting(Name_StackMapTable) /\ WholeTable(NextEnvelope.info))
          => /\ Appended(attributes, attributes')
             /\ attributes'[Len(attributes')].kind = "StackMapTable"
             /\ Len(attributes'[Len(attributes')].data)
                   = Wire16(NextEnvelope.info, 0)
             /\ \A j \in 1..Len(attributes'[Len(attributes')].data) :
                   FrameByTable(attributes'[Len(attributes')].data[j],
                                NextEnvelope.info,
                                FramesEnd(j - 1, NextEnvelope.info, 2))
             /\ consumed'[Len(consumed')]
                   = FramesEnd(Wire16(NextEnvelope.info, 0),
                               NextEnvelope.info, 2)]_vars

\* C13 witness: a table of an append frame of tag 253 and a full frame has
\* been decoded.
C13_Witness ==
    \E k \in 1..Len(attributes) :
        /\ attributes[k].kind = "StackMapTable"
        /\ Len(attributes[k].data) = 2
        /\ attributes[k].data[1].kind = "AppendFrame"
        /\ Len(attributes[k].data[1].data[2]) = 2
        /\ attributes[k].data[2].kind = "FullFrame"

\* the decode has stopped at the promotion of a class attribute whose name
\* the dispatcher found to be this one
StoppedAt(name) ==
    /\ pc \in {"panic", "returned"}
    /\ Len(attributes) < Len(attribute_infos)
    /\ ResolvedName(name)

\* C14: a stack map frame whose tag is in 128..246 is rejected with
\* UnknownStackMapFrame.  When the decode stops at a StackMapTable whose
\* first frame has such a tag (242..246 among them), parse_class_file has
\* returned that error to its caller.
C14_UnknownFrameIsAnError ==
    (/\ StoppedAt(Name_StackMapTable)
     /\ Len(NextEnvelope.info) >= 3
     /\ Wire16(NextEnvelope.info, 0) >= 1
     /\ NextEnvelope.info[3] \in 128..246)
        => (ReturnedErr /\ why = "UnknownStackMapFrame")

\* C15: the decoded frame retains what its tag encodes (the offset_delta of
\* SameFrame and SameLocals1StackItemFrame, the k of ChopFrame): a decoded
\* table of two frames of the same length whose bytes differ in the tag
\* only holds two different frames.
C15_TagIsRetained ==
    \A k \in 1..Len(attributes) :
        (/\ attributes[k].kind = "StackMapTable"
         /\ Len(attributes[k].data) = 2
         /\ consumed[k] = Len(attribute_infos[k].info)
         /\ 2 * (FramesEnd(1, attribute_infos[k].info, 2) - 2)
               = Len(attribute_infos[k].info) - 2
         /\ SubSeq(attribute_infos[k].info, 4,
                   FramesEnd(1, attribute_infos[k].info, 2))
               = SubSeq(attribute_infos[k].info,
                        FramesEnd(1, attribute_infos[k].info, 2) + 2,
                        Len(attribute_infos[k].info))
         /\ attribute_infos[k].info[3]
               # attribute_infos[k].info[
                     FramesEnd(1, attribute_infos[k].info, 2) + 1])
            => attributes[k].data[1] # attributes[k].data[2]

\* C16: VerificationTypeInfo::parse maps the tag 0 to Top, 1 to Integer, 2 to
\* Float, 3 to Double, 4 to Long, 5 to Null, 6 to UninitializedThis, 7 to
\* Object and 8 to Uninitialized, and reads a u16 behind the tag for 7 and 8
\* only; with any other tag the decode fails and gives no value.  Stated of
\* the verification type of a frame of tag 64 that is the only frame of a
\* StackMapTable: the promotion gives the variant of the tag having read 1
\* byte (tags 0..6) or 3 bytes (7 and 8) of it, and with a tag above 8
\* gives no attribute and ends the decode.
C16_VerificationTypeByTag ==
    [][(/\ Promoting(Name_StackMapTable)
        /\ Len(NextEnvelope.info) >= 4
        /\ Wire16(NextEnvelope.info, 0) = 1
        /\ NextEnvelope.info[3] = 64)
          => /\ NextEnvelope.info[4] <= 6
                => /\ Appended(attributes, attributes')
                   /\ attributes'[Len(attributes')].data[1].data
                         = <<Variant(VtiVariant(NextEnvelope.info[4]), <<>>)>>
                   /\ consumed'[Len(consumed')] = 4
             /\ (NextEnvelope.info[4] \in {7, 8} /\ Len(NextEnvelope.info) >= 6)
                => /\ Appended(attributes, attributes')
                   /\ attributes'[Len(attributes')].data[1].data
                         = <<Variant(VtiVariant(NextEnvelope.info[4]),
                                     <<Wire16(NextEnvelope.info, 4)>>)>>
                   /\ consumed'[Len(consumed')] = 6
             /\ NextEnvelope.info[4] > 8
                => /\ attributes' = attributes
                   /\ pc' \in {"panic", "returned"}
                   /\ ret' # "Ok"]_vars

\* C16 witness: a frame of tag 64 with the verification type Object(265) has
\* been decoded, three bytes behind the frame's tag having been read.
C16_Witness ==
    /\ Len(attributes) = 1
    /\ attributes[1].kind = "StackMapTable"
    /\ attribute_infos[1].info = <<0, 1, 64, 7, 1, 9>>
    /\ attributes[1].data[1].data = <<Variant("ObjectVariableInfo", <<265>>)>>
    /\ consumed[1] = 6

\* b is a whole Code body whose nested attributes, by the names the pool
\* gives them, have no body to decode
WholeCode(b, pool) ==
    /\ Len(b) >= 8
    /\ Wire32(b, 4) <= Len(b) - 10
    /\ CodeAttributesAt(b, 0) + 2 <= Len(b)
    /\ ~EnvelopesOverrun(Wire16(b, CodeAttributesAt(b, 0)), b,
                         CodeAttributesAt(b, 0) + 2)
    /\ \A k \in 1..Wire16(b, CodeAttributesAt(b, 0)) :
          /\ Wire16(b, EnvelopeStart(k, b, CodeAttributesAt(b, 0) + 2))
                \in 1..Len(pool)
          /\ pool[Wire16(b, EnvelopeStart(k, b, CodeAttributesAt(b, 0) + 2))]
                \in {Entry("UTF8", Name_Synthetic),
                     Entry("UTF8", Name_Deprecated)}

\* c is what the layout of a Code body gives the bytes b
CodeByLayout(c, b, pool) ==
    /\ c.max_stack = Wire16(b, 0)
    /\ c.max_locals = Wire16(b, 2)
    /\ c.code_length = Wire32(b, 4)
    /\ c.code = SubSeq(b, 9, 8 + Wire32(b, 4))
    /\ c.exception_table_length = Wire16(b, 8 + Wire32(b, 4))
    /\ Len(c.exception_table) = c.exception_table_length
    /\ \A j \in 1..Len(c.exception_table) :
          c.exception_table[j]
             = [f \in 1..4 |->
                   Wire16(b, 10 + Wire32(b, 4) + 8 * (j - 1) + 2 * (f - 1))]
    /\ c.attributes_count = Wire16(b, CodeAttributesAt(b, 0))
    /\ ListInOrder(c.attributes, b, CodeAttributesAt(b, 0), pool)

\* C17: Code::parse reads u16 max_stack, u16 max_locals, u32 code_length,
\* code_length bytes kept as they are, a u16 count and that many exception
\* records of four u16, and a u16 count and that many nested envelopes, each
\* promoted by the same dispatcher with the same pool.  Promoting a Code
\* attribute with a whole body gives a Code whose every field is the value
\* at its place in the body, and reads the body to the end of its last
\* nested envelope.
C17_CodeByLayout ==
    [][(Promoting(Name_Code) /\ WholeCode(NextEnvelope.info, constant_pool))
          => /\ Appended(attributes, attributes')
             /\ attributes'[Len(attributes')].kind = "Code"
             /\ CodeByLayout(attributes'[Len(attributes')].data,
                             NextEnvelope.info, constant_pool)
             /\ consumed'[Len(consumed')]
                   = EnvelopeStart(
                        Wire16(NextEnvelope.info,
                               CodeAttributesAt(NextEnvelope.info, 0)) + 1,
                        NextEnvelope.info,
                        CodeAttributesAt(NextEnvelope.info, 0) + 2)]_vars

\* C17 witness: a Code with two bytes of code, two exception records and
\* two nested attributes has been decoded.
C17_Witness ==
    \E k \in 1..Len(attributes) :
        /\ attributes[k].kind = "Code"
        /\ attributes[k].data.code = <<42, 177>>
        /\ attributes[k].data.exception_table
              = <<(<<1, 2, 3, 4>>), (<<5, 6, 7, 8>>)>>
        /\ Len(attributes[k].data.attributes) = 2
        /\ attributes[k].data.attributes[1].kind = "Deprecated"

\* the largest number of a non-empty set of numbers
SetMax(S) == CHOOSE x \in S : \A y \in S : y <= x

\* the arrays and annotations the element value v is nested to
RECURSIVE ValueDepth(_)
ValueDepth(v) ==
    IF v.kind = "ArrayValue"
    THEN 1 + SetMax({0} \cup {ValueDepth(v.data[k]) : k \in 1..Len(v.data)})
    ELSE IF v.kind = "AnnotationValue"
    THEN 1 + SetMax({0} \cup
                    {ValueDepth(v.data[1].element_value_pairs[k][2]) :
                        k \in 1..Len(v.data[1].element_value_pairs)})
    ELSE 0

\* C18: element values are decoded under a guard on their nesting: a value
\* nested deeper than the configured limit is rejected with NestingTooDeep, so no
\* decoded element value is nested deeper than the limit.
C18_NestingIsGuarded ==
    /\ \A k \in 1..Len(attributes) :
          attributes[k].kind = "AnnotationDefault"
             => ValueDepth(attributes[k].data) <= NestingLimit
    /\ (/\ StoppedAt(Name_AnnotationDefault)
        /\ \A k \in 0..NestingLimit :
              /\ Len(NextEnvelope.info) >= 3 * k + 3
              /\ NextEnvelope.info[3 * k + 1] = 91
              /\ Wire16(NextEnvelope.info, 3 * k + 1) = 1)
          => (ReturnedErr /\ why = "NestingTooDeep")

\* the constant element value at offset p of b
ConstAt(b, p) == Variant("ConstValue", <<Wire16(b, p + 1)>>)

\* n constants lie at offset p of b, each behind skip bytes
ConstsAt(n, skip, b, p) ==
    /\ Len(b) >= p + n * (skip + 3)
    /\ \A k \in 1..n : b[p + (k - 1) * (skip + 3) + skip + 1] \in ConstTags

\* a is what the layout of an annotation whose values are constants gives
\* the bytes of b at offset p
AnnotationAt(a, b, p) ==
    /\ a.type_index = Wire16(b, p)
    /\ Len(a.element_value_pairs) = Wire16(b, p + 2)
    /\ \A k \in 1..Len(a.element_value_pairs) :
          a.element_value_pairs[k]
             = <<Wire16(b, p + 4 + 5 * (k - 1)),
                 ConstAt(b, p + 4 + 5 * (k - 1) + 2)>>

\* the last promotion has given this value having read n bytes
Promoted(kind, value, n) ==
    /\ Appended(attributes, attributes')
    /\ attributes'[Len(attributes')].kind = kind
    /\ attributes'[Len(attributes')].data = value
    /\ consumed'[Len(consumed')] = n

\* C19: ElementValue::parse reads by its tag: one u16 for each of B C D F I J
\* S Z s, two u16 for 'e', one u16 for 'c', an Annotation for '@', and for
\* '[' a u16 count and that many element values; an Annotation is a u16
\* type_index, a u16 count and that many pairs of a u16 element_name_index
\* and an element value.  Stated of the element value of an
\* AnnotationDefault and of the one annotation of a
\* RuntimeVisibleAnnotations, where the values within an array or an
\* annotation are constants.
C19_ElementValueByTag ==
    [][/\ (Promoting(Name_AnnotationDefault) /\ Len(NextEnvelope.info) >= 3)
          => /\ NextEnvelope.info[1] \in ConstTags
                => Promoted("AnnotationDefault",
                            ConstAt(NextEnvelope.info, 0), 3)
             /\ NextEnvelope.info[1] = 99
                => Promoted("AnnotationDefault",
                            Variant("ClassInfoIndex",
                                    <<Wire16(NextEnvelope.info, 1)>>), 3)
             /\ (NextEnvelope.info[1] = 101 /\ Len(NextEnvelope.info) >= 5)
                => Promoted("AnnotationDefault",
                            Variant("EnumConstValue",
                                    <<Wire16(NextEnvelope.info, 1),
                                      Wire16(NextEnvelope.info, 3)>>), 5)
             /\ (/\ NextEnvelope.info[1] = 91
                 /\ ConstsAt(Wire16(NextEnvelope.info, 1), 0,
                             NextEnvelope.info, 3))
                => Promoted("AnnotationDefault",
                            Variant("ArrayValue",
                                    [k \in 1..Wire16(NextEnvelope.info, 1) |->
                                        ConstAt(NextEnvelope.info, 3 * k)]),
                            3 + 3 * Wire16(NextEnvelope.info, 1))
             /\ (/\ NextEnvelope.info[1] = 64
                 /\ Len(NextEnvelope.info) >= 5
                 /\ ConstsAt(Wire16(NextEnvelope.info, 3), 2,
                             NextEnvelope.info, 5))
                => /\ Appended(attributes, attributes')
                   /\ attributes'[Len(attributes')].data.kind
                         = "AnnotationValue"
                   /\ AnnotationAt(attributes'[Len(attributes')].data.data[1],
                                   NextEnvelope.info, 1)
                   /\ consumed'[Len(consumed')]
                         = 5 + 5 * Wire16(NextEnvelope.info, 3)
       /\ (/\ Promoting(Name_RuntimeVisibleAnnotations)
           /\ Len(NextEnvelope.info) >= 6
           /\ Wire16(NextEnvelope.info, 0) = 1
           /\ ConstsAt(Wire16(NextEnvelope.info, 4), 2, NextEnvelope.info, 6))
          => /\ Appended(attributes, attributes')
             /\ Len(attributes'[Len(attributes')].data) = 1
             /\ AnnotationAt(attributes'[Len(attributes')].data[1],
                             NextEnvelope.info, 2)
             /\ consumed'[Len(consumed')]
                   = 6 + 5 * Wire16(NextEnvelope.info, 4)]_vars

\* C19 witness: an annotation of type_index 3 with the pairs (6, s 258) and
\* (5, I 9) has been decoded as the element value of an AnnotationDefault.
C19_Witness ==
    /\ Len(attributes) = 1
    /\ attributes[1].kind = "AnnotationDefault"
    /\ attributes[1].data.kind = "AnnotationValue"
    /\ attributes[1].data.data[1]
          = [type_index |-> 3,
             element_value_pairs |->
                <<(<<6, Variant("ConstValue", <<258>>)>>),
                  (<<5, Variant("ConstValue", <<9>>)>>)>>]

-----------------------------------------------------------------------------
(* The target_info table of the class-file format *)

\* the variant of a target_type ("": the target_type is not in the table)
TargetVariant(t) ==
    IF t \in {0, 1} THEN "TypeParameter"
    ELSE IF t = 16 THEN "SuperType"
    ELSE IF t \in {17, 18} THEN "TypeParameterBound"
    ELSE IF t \in {19, 20, 21} THEN "Empty"
    ELSE IF t = 22 THEN "FormalParameter"
    ELSE IF t = 23 THEN "Throws"
    ELSE IF t \in {64, 65} THEN "LocalVar"
    ELSE IF t = 66 THEN "Catch"
    ELSE IF t \in 67..70 THEN "Offset"
    ELSE IF t \in 71..75 THEN "TypeArgument"
    ELSE ""

\* the bytes of the target_info of this variant at offset p of b
TargetSize(variant, b, p) ==
    IF variant = "Empty" THEN 0
    ELSE IF variant \in {"TypeParameter", "FormalParameter"} THEN 1
    ELSE IF variant = "TypeArgument" THEN 3
    ELSE IF variant # "LocalVar" THEN 2
    ELSE IF p + 2 > Len(b) THEN Beyond
    ELSE 2 + 6 * Wire16(b, p)

\* the payload of the target_info of this variant at offset p of b
TargetPayload(variant, b, p) ==
    IF variant = "Empty" THEN <<>>
    ELSE IF variant \in {"TypeParameter", "FormalParameter"} THEN <<b[p + 1]>>
    ELSE IF variant = "TypeParameterBound" THEN <<b[p + 1], b[p + 2]>>
    ELSE IF variant = "TypeArgument" THEN <<Wire16(b, p), b[p + 3]>>
    ELSE IF variant # "LocalVar" THEN <<Wire16(b, p)>>
    ELSE [k \in 1..Wire16(b, p) |->
            [f \in 1..3 |-> Wire16(b, p + 2 + 6 * (k - 1) + 2 * (f - 1))]]

\* the offset of the type path of the type annotation at offset p of b
PathAt(b, p) == p + 1 + TargetSize(TargetVariant(b[p + 1]), b, p + 1)

\* the offset of the type_index of the type annotation at offset p of b
TypeIndexAt(b, p) == PathAt(b, p) + 1 + 2 * b[PathAt(b, p) + 1]

\* the bytes at offset p of b are a whole type annotation of a target_type
\* of the table whose element values are constants
WholeTypeAnnotation(b, p) ==
    /\ Len(b) > p
    /\ TargetVariant(b[p + 1]) # ""
    /\ PathAt(b, p) < Len(b)
    /\ TypeIndexAt(b, p) + 4 <= Len(b)
    /\ ConstsAt(Wire16(b, TypeIndexAt(b, p) + 2), 2, b, TypeIndexAt(b, p) + 4)

\* a is what the layout of a type annotation gives the bytes at offset p of b
TypeAnnotationAt(a, b, p) ==
    /\ a.target_type = b[p + 1]
    /\ a.target_info
          = Variant(TargetVariant(b[p + 1]),
                    TargetPayload(TargetVariant(b[p + 1]), b, p + 1))
    /\ a.target_path
          = [k \in 1..b[PathAt(b, p) + 1] |->
                <<b[PathAt(b, p) + 2 * k], b[PathAt(b, p) + 2 * k + 1]>>]
    /\ AnnotationAt([type_index |-> a.type_index,
                     element_value_pairs |-> a.element_value_pairs],
                    b, TypeIndexAt(b, p))

\* C20: TypeAnnotation::parse reads the u8 target_type, the TargetInfo that
\* the format's table gives that byte, a TypePath of a u8 length and that
\* many (kind, arg_index) byte pairs, a u16 type_index and a u16-counted list
\* of element-value pairs; with a target_type outside the table no TargetInfo
\* and no attribute is decoded.  Stated of the one type annotation of a
\* RuntimeVisibleTypeAnnotations.
C20_TypeAnnotationByLayout ==
    [][(/\ Promoting(Name_RuntimeVisibleTypeAnnotations)
        /\ Len(NextEnvelope.info) >= 3
        /\ Wire16(NextEnvelope.info, 0) = 1)
          => /\ WholeTypeAnnotation(NextEnvelope.info, 2)
                => /\ Appended(attributes, attributes')
                   /\ attributes'[Len(attributes')].kind
                         = "RuntimeVisibleTypeAnnotations"
                   /\ Len(attributes'[Len(attributes')].data) = 1
                   /\ TypeAnnotationAt(attributes'[Len(attributes')].data[1],
                                       NextEnvelope.info, 2)
                   /\ consumed'[Len(consumed')]
                         = TypeIndexAt(NextEnvelope.info, 2) + 4
                             + 5 * Wire16(NextEnvelope.info,
                                          TypeIndexAt(NextEnvelope.info, 2) + 2)
             /\ TargetVariant(NextEnvelope.info[3]) = ""
                => /\ attributes' = attributes
                   /\ pc' \in {"panic", "returned"}
                   /\ ret' # "Ok"]_vars

\* C20 witness: a type annotation of target_type 64 with a table of one
\* local variable, a type path of two pairs and one element-value pair has
\* been decoded.
C20_Witness ==
    /\ Len(attributes) = 1
    /\ attributes[1].kind = "RuntimeVisibleTypeAnnotations"
    /\ attributes[1].data
          = <<[target_type |-> 64,
               target_info |-> Variant("LocalVar", <<(<<1, 2, 3>>)>>),
               target_path |-> <<(<<0, 0>>), (<<3, 1>>)>>,
               type_index |-> 3,
               element_value_pairs |->
                  <<(<<5, Variant("ConstValue", <<9>>)>>)>>]>>

-----------------------------------------------------------------------------
(* The passes over the buffer *)

\* the offset in the buffer of the body of the k-th envelope of the class,
\* once the cursor stands behind the last envelope
BodyOffset(k) ==
    pos - EnvelopesSize(SubSeq(attribute_infos, k, Len(attribute_infos))) + 6

\* the body of the k-th envelope of the class is the bytes of the buffer at
\* BodyOffset(k)
BodyInBuffer(k) ==
    \A j \in 1..Len(attribute_infos[k].info) :
        attribute_infos[k].info[j] = buf[BodyOffset(k) + j]

Bytes(b, p, n) == [j \in 1..n |-> b[p + j]]

\* the body of a Code attribute holds less than its header and the
\* code_length it declares
CodeOverruns(b) == Len(b) < 8 \/ Wire32(b, 4) > Len(b) - 8

\* C22: an attribute body is parsed within its own envelope only.  The
\* envelope reader leaves the cursor behind the last envelope, each at (start
\* + 6 + attribute_length) of the one before, and hands on exactly the
\* attribute_length bytes of each; the promotion does not move the cursor,
\* reads no more than those bytes, and a body that declares more than its
\* envelope holds is not decoded, whatever follows the envelope.
C22_WithinEnvelope ==
    [][/\ (pc = "attributes" /\ pc' = "from_attribute_info")
            => /\ Len(attribute_infos') = Wire16(buf, pos)
               /\ pos' = EnvelopeStart(Wire16(buf, pos) + 1, buf, pos + 2)
               /\ \A k \in 1..Len(attribute_infos') :
                     attribute_infos'[k].info
                        = Bytes(buf, EnvelopeStart(k, buf, pos + 2) + 6,
                                Wire32(buf,
                                       EnvelopeStart(k, buf, pos + 2) + 2))
       /\ pc = "from_attribute_info"
            => pos' = pos /\ attribute_infos' = attribute_infos
       /\ (pc = "from_attribute_info" /\ Appended(consumed, consumed'))
            => consumed'[Len(consumed')] <= Len(NextEnvelope.info)
       /\ (\/ Promoting(Name_StackMapTable) /\ ~WholeTable(NextEnvelope.info)
           \/ Promoting(Name_Code) /\ CodeOverruns(NextEnvelope.info))
            => attributes' = attributes /\ pc' = "panic"]_vars

\* C22 witness: the decode has stopped at a StackMapTable that declares one
\* frame and holds none, with a second envelope behind it whose first byte
\* is the tag of a frame.
C22_Witness ==
    /\ pc = "panic"
    /\ attributes = <<>>
    /\ Len(attribute_infos) = 2
    /\ ResolvedName(Name_StackMapTable)
    /\ attribute_infos[1].info = <<0, 1>>
    /\ buf[BodyOffset(1) + 3] = 0

-----------------------------------------------------------------------------
(* The declared count 0 *)

\* C23: ConstantPool::parse with constant_pool_count = 0 does not underflow
\* in constant_pool_count - 1: it reads no entry and hands back an empty pool
\* or an error value.  Once the count 0 is read the decode never aborts
\* before the class header is read.
C23_CountZeroDoesNotUnderflow ==
    (constant_pool_count = 0 /\ access_flags = Unread) => pc # "panic"

-----------------------------------------------------------------------------
(* Termination *)

\* the place of a position of parse_class_file in the order of its
\* statements; the return and the abort come last
Stage(at) ==
    CASE at = "magic" -> 1
      [] at = "version" -> 2
      [] at = "constant_pool_count" -> 3
      [] at = "constant_pool" -> 4
      [] at = "constant_pool_loop" -> 5
      [] at = "access_flags" -> 6
      [] at = "interfaces" -> 7
      [] at = "fields_count" -> 8
      [] at = "fields" -> 9
      [] at = "methods_count" -> 10
      [] at = "methods" -> 11
      [] at = "attributes" -> 12
      [] at = "from_attribute_info" -> 13
      [] at = "returned" -> 14
      [] at = "panic" -> 15

\* the iterations the loop at the current position has left by the count
\* read from the input (for the caller of parse_class_file: its one step)
Left ==
    CASE pc = "constant_pool_loop" ->
            IF i < constant_pool_count - 1 THEN constant_pool_count - 1 - i
            ELSE 0
      [] pc = "fields" -> fields_count - Len(fields)
      [] pc = "methods" -> methods_count - Len(methods)
      [] pc = "from_attribute_info" -> Len(attribute_infos) - Len(attributes)
      [] pc = "returned" -> IF exit = "running" THEN 1 ELSE 0
      [] OTHER -> 0

\* parse_class_file has ended: by a return or by an abort
Ended == pc \in {"returned", "panic"}

\* C24: decoding terminates on every finite input buffer.  Every step moves
\* parse_class_file to a later statement or takes one of the iterations its
\* loop has left by the count read from the input, of which there are never
\* less than none: no run has more steps than statements and iterations,
\* whatever the descent into Code, record components and element values
\* within a step finds.
C24_Terminates ==
    [][/\ \/ Stage(pc') > Stage(pc)
          \/ pc' = pc /\ Left' < Left
       /\ Left >= 0
       /\ Left' >= 0]_vars

\* C24 witness: the process has ended with success on a class file whose
\* Code attribute holds a Code attribute that holds a Synthetic attribute.
C24_Witness ==
    /\ exit = "success"
    /\ Len(constant_pool) >= 2
    /\ Len(attributes) = 1
    /\ attributes[1].kind = "Code"
    /\ Len(attributes[1].data.attributes) = 1
    /\ attributes[1].data.attributes[1].kind = "Code"
    /\ Len(attributes[1].data.attributes[1].data.attributes) = 1
    /\ attributes[1].data.attributes[1].data.attributes[1].kind = "Synthetic"

====
